---- MODULE Spec2Model ----
(***************************************************************************)
(* State machine of the VulkanFractalRenderer presentation engine:         *)
(* WindowsApplication::Run (message pump + render loop),                   *)
(* FractalRenderer::RenderFrame and its helpers, the swap-chain rebuild    *)
(* paths of VulkanContext, teardown, and the device (graphics queue and    *)
(* presentation engine) as the environment.                                *)
(*                                                                         *)
(* Device handles are modelled by their liveness: a handle is either live  *)
(* or destroyed, and every reference to it (a framebuffer attachment, a    *)
(* command buffer named by a pending submission) carries that liveness.    *)
(* Floats are modelled exactly: centre coordinates in tenths (1 = 0.1),    *)
(* scale and aspect ratio as fractions <<numerator, denominator>>.         *)
(*                                                                         *)
(* Specifications: Spec (render loop, resize messages, teardown),          *)
(* SpecUpload (render loop with the pan and zoom mutators), SpecFaults     *)
(* (render loop with failing fence and command-buffer resets), SpecParams  *)
(* (the Parameter Store under all mutators) and SpecMem (FindMemoryType    *)
(* over bounded inputs).                                                   *)
(***************************************************************************)
EXTENDS Integers, Sequences, FiniteSets, TLC

\* ---------------------------------------------------------------- bounds
\* Number of images of the swap chain (device dependent, CreateSwapChain).
NumImages == 2
\* Number of RenderFrame calls explored.
MaxFrames == 5

\* Largest number of passes through the window loop of RecreateSwapChain.
MaxWaitRounds == 3

\* Largest numerator or denominator of m_zoom from which the wheel still turns,
\* and largest distance of a cached pan coordinate from the origin.
MaxZoomTerm == 20
MaxPan == 2

\* Largest shader file explored, in bytes.
MaxShaderBytes == 8

\* Largest memoryTypeCount explored, and number of property flag bits.
MaxMemoryTypes == 3
MemFlagBits == 2

\* ------------------------------------------------------ program constants
MAX_FRAMES_IN_FLIGHT == 2

Slots == 0 .. (MAX_FRAMES_IN_FLIGHT - 1)
Images == 0 .. (NumImages - 1)
NoImage == 0 - 1

\* VkResult values that matter to the frame loop.
VkResults == {"VK_SUCCESS", "VK_SUBOPTIMAL_KHR", "VK_ERROR_OUT_OF_DATE_KHR", "VK_ERROR_DEVICE_LOST"}

\* A result that reports a failure other than a stale swap chain.
DeviceFailure(result) ==
    result \notin {"VK_SUCCESS", "VK_SUBOPTIMAL_KHR", "VK_ERROR_OUT_OF_DATE_KHR"}

\* Height of the strip of controls below the rendering area.
ControlAreaHeight == 80

\* Main.cpp: initialWidth, initialHeight.
InitialWindowSize == <<1280, 720>>

\* How a device object came to be: the call that created it, or no object.
HandleOrigins == {"constructor", "RecreateSwapChain", "destroyed", "VK_NULL_HANDLE"}

\* Inputs of the windowing layer.
WindowSizes == {<<1280, 720>>, <<640, 480>>}
PanValues == {<<0, 0>>, <<1, 0 - 2>>}
ZoomValues == {1, 2}
\* Arguments of the other mutators: FractalType and ColorPalette enumerators,
\* and iteration counts inside and outside the slider range and the bounds.
FractalTypeValues == {0, 4}
PaletteValues == {0, 3}
IterationValues == {0, 10, 1000, 100001}

\* juliaConstantX = -0.7f, juliaConstantY = 0.27015f, in units of 0.00001.
JuliaDefault == <<0 - 70000, 27015>>

\* Contents of freshly allocated, never written buffer memory.
Uninit == [valid |-> FALSE]

VARIABLES
    pc,                      \* position of the application thread
    m_width, m_height,       \* WindowsApplication::m_width / m_height
    m_resizing,              \* WindowsApplication::m_resizing
    m_framebufferResized,    \* VulkanContext::m_framebufferResized
    swapChainLive,           \* VulkanContext::m_swapChain != VK_NULL_HANDLE
    m_swapChainFramebuffers, \* per image: the attached view and whether that view still exists
    m_commandBuffers,        \* per image: recorded contents of the command buffer
    m_descriptorSets,        \* per image: the parameter buffer the set points at
    uniformBuffers,          \* per image: contents of the mapped parameter buffer
    m_ubo,                   \* FractalRenderer::m_ubo, the Parameter Record
    m_inFlightFences,        \* per slot: TRUE when signaled
    m_currentFrame,          \* FractalRenderer::m_currentFrame
    queue,                   \* submissions not yet completed by the device, oldest first
    imageIndex,              \* RenderFrame local
    swapChainRecreated,      \* AcquireNextImage local
    acqAttempts,             \* vkAcquireNextImageKHR calls of the current AcquireNextImage
    acqRebuilds,             \* RecreateSwapChain calls of the current AcquireNextImage
    acqResults,              \* device results seen by the current AcquireNextImage
    frame,                   \* what the current RenderFrame passed to the device so far
    nFrames,                 \* RenderFrame calls that returned normally
    slotLog,                 \* the frame slot each of them used, in order
    nStarted,                \* RenderFrame calls made
    nPresents,               \* vkQueuePresentKHR calls made
    m_swapChainImages,       \* VulkanContext::m_swapChainImages.size()
    m_swapChainImageViews,   \* VulkanContext::m_swapChainImageViews.size()
    m_swapChainExtent,       \* VulkanContext::m_swapChainExtent, <<width, height>>
    m_graphicsPipeline,      \* FractalRenderer::m_graphicsPipeline, the handle by its creator
    m_pipelineLayout,        \* FractalRenderer::m_pipelineLayout
    m_descriptorSetLayout,   \* FractalRenderer::m_descriptorSetLayout
    m_renderPass,            \* FractalRenderer::m_renderPass
    typeFilter,              \* FindMemoryType argument
    properties,              \* FindMemoryType argument
    memoryTypes,             \* propertyFlags of memProperties.memoryTypes[0 .. memoryTypeCount-1]
    memoryTypeIndex,         \* what the last FindMemoryType call returned
    lastCall,                \* the last call that wrote m_ubo, with its argument
    imageAvailable,          \* per slot: m_imageAvailableSemaphores[f] has a pending signal
    destroyed,               \* per kind of renderer object: destroy calls made on the current handles
    recreateOps,             \* the calls of the last VulkanContext::RecreateSwapChain, in order
    vertShaderFile,          \* size of shaders/fractal.vert.spv, Absent when there is no such file
    fragShaderFile,          \* size of shaders/fractal.frag.spv
    pipelineBuild,           \* outcome of the last CreateGraphicsPipeline
    oneShot,                 \* the one-shot command buffer of Begin/EndSingleTimeCommands
    deviceImages,            \* images the device hands out for a swap chain created now
    windowWait,              \* the window loop at the head of VulkanContext::RecreateSwapChain
    m_fractalType,           \* WindowsApplication::m_fractalType
    m_maxIterations,         \* WindowsApplication::m_maxIterations
    m_colorPalette,          \* WindowsApplication::m_colorPalette
    m_zoom,                  \* WindowsApplication::m_zoom, a fraction <<num, den>>
    m_panX,                  \* WindowsApplication::m_panX
    m_panY                   \* WindowsApplication::m_panY

vars == <<pc, m_width, m_height, m_resizing, m_framebufferResized, swapChainLive,
          m_swapChainFramebuffers, m_commandBuffers, m_descriptorSets, uniformBuffers,
          m_ubo, m_inFlightFences, m_currentFrame, queue, imageIndex,
          swapChainRecreated, acqAttempts, acqRebuilds, acqResults, frame,
          nFrames, slotLog, nStarted, nPresents,
          m_swapChainImages, m_swapChainImageViews, m_swapChainExtent,
          m_graphicsPipeline, m_pipelineLayout, m_descriptorSetLayout, m_renderPass,
          typeFilter, properties, memoryTypes, memoryTypeIndex, lastCall,
          imageAvailable, destroyed, recreateOps,
          vertShaderFile, fragShaderFile, pipelineBuild, oneShot, deviceImages,
          windowWait, m_fractalType, m_maxIterations, m_colorPalette, m_zoom, m_panX, m_panY>>

appVars == <<m_width, m_height, m_resizing>>
ctxVars == <<m_framebufferResized, swapChainLive>>
acqVars == <<swapChainRecreated, acqAttempts, acqRebuilds, acqResults>>
cntVars == <<nFrames, slotLog, nStarted, nPresents>>
scVars == <<m_swapChainImages, m_swapChainImageViews, m_swapChainExtent, recreateOps,
           deviceImages, windowWait>>
gfxVars == <<m_graphicsPipeline, m_pipelineLayout, m_descriptorSetLayout, m_renderPass>>
memVars == <<typeFilter, properties, memoryTypes, memoryTypeIndex>>
shaderVars == <<vertShaderFile, fragShaderFile, pipelineBuild>>
viewVars == <<m_fractalType, m_maxIterations, m_colorPalette, m_zoom, m_panX, m_panY>>

\* ------------------------------------------------------------ shader files
\* The size of a file that does not exist.
Absent == 0 - 1
ShaderFileSizes == Absent .. MaxShaderBytes

\* A check that looks for the file only and not at its length.
ShaderMissingOnly(size) == size = Absent

\* std::filesystem::exists fails, or ReadFile returns an empty vector.
ShaderMissingOrEmpty(size) == size = Absent \/ size = 0

\* The device calls of a pipeline build that can fail, in the order they are
\* made; "none" when they all succeed.
BuildFailures ==
    {"none", "vertShaderModule", "fragShaderModule", "pipelineLayout", "pipeline"}

\* A pipeline build that has not run.
NoBuild ==
    [status |-> "pending", error |-> "none", shaderModules |-> 0,
     pipelineLayout |-> FALSE, pipeline |-> FALSE]

\* FractalRenderer::CreateGraphicsPipeline: the existence checks, the reads,
\* the emptiness checks, then the two shader modules, the pipeline layout and
\* the pipeline.  shaderModules counts the vkCreateShaderModule calls that
\* succeeded.
CreateGraphicsPipelineBuild(vert, frag, failure) ==
    IF ShaderMissingOrEmpty(vert) \/ ShaderMissingOrEmpty(frag)
    THEN [NoBuild EXCEPT
            !.status = "thrown",
            !.error = IF vert = Absent THEN "Vertex shader file not found"
                      ELSE IF frag = Absent THEN "Fragment shader file not found"
                      ELSE IF vert = 0 THEN "Vertex shader file is empty"
                      ELSE "Fragment shader file is empty"]
    ELSE IF failure = "vertShaderModule"
    THEN [NoBuild EXCEPT !.status = "thrown", !.error = "Failed to create shader module"]
    ELSE IF failure = "fragShaderModule"
    THEN [NoBuild EXCEPT !.status = "thrown", !.error = "Failed to create shader module",
                         !.shaderModules = 1]
    ELSE IF failure = "pipelineLayout"
    THEN [NoBuild EXCEPT !.status = "thrown", !.error = "Failed to create pipeline layout",
                         !.shaderModules = 2]
    ELSE IF failure = "pipeline"
    THEN [NoBuild EXCEPT !.status = "thrown", !.error = "Failed to create graphics pipeline",
                         !.shaderModules = 2, !.pipelineLayout = TRUE]
    ELSE [NoBuild EXCEPT !.status = "built", !.shaderModules = 2,
                         !.pipelineLayout = TRUE, !.pipeline = TRUE]

\* ------------------------------------------------------------ one-shot commands
\* No one-shot command buffer has been asked for.
NoOneShot == [pc |-> "none", ops |-> <<>>, results |-> <<>>, frees |-> 0]

\* A helper that stops at the first device call that does not succeed.
OneShotAfterChecked(result, next) == IF result = "VK_SUCCESS" THEN next ELSE "thrown"

\* Begin/EndSingleTimeCommands drop the VkResult of every device call: the
\* next statement runs whatever the call returned.
OneShotAfter(result, next) == next

\* One device call of the helpers: the call is logged with its result and
\* control moves on.
OneShotCall(o, op, result, next) ==
    [o EXCEPT !.ops = Append(@, op),
              !.results = Append(@, result),
              !.pc = OneShotAfter(result, next)]

\* ------------------------------------------------------------ teardown bookkeeping
\* The kinds of device objects the renderer owns.
ObjectKinds ==
    {"semaphores", "fences", "descriptorPool", "uniformBuffers", "uniformBuffersMemory",
     "framebuffers", "commandBuffers", "pipeline", "pipelineLayout",
     "descriptorSetLayout", "renderPass"}

\* The kinds whose handle Cleanup / CleanupSwapChain forgets after destroying
\* it (set to VK_NULL_HANDLE, or the vector cleared).
ForgottenAfterDestroy == {"commandBuffers", "pipeline", "pipelineLayout"}

\* FractalRenderer::Cleanup: every handle that is not null is destroyed.
CleanupDestroys(d) ==
    [k \in ObjectKinds |->
        IF d[k] > 0 /\ k \in ForgottenAfterDestroy THEN d[k] ELSE d[k] + 1]

\* The calls of VulkanContext::RecreateSwapChain in the order it makes them.
RecreateSwapChainOps ==
    <<"waitForWindow", "vkDeviceWaitIdle", "CleanupSwapChain", "CreateSwapChain",
      "CreateImageViews">>

\* ------------------------------------------------------------ device memory
\* a & b on unsigned integers.
RECURSIVE BitAnd(_, _)
BitAnd(a, b) ==
    IF a = 0 \/ b = 0
    THEN 0
    ELSE (a % 2) * (b % 2) + 2 * BitAnd(a \div 2, b \div 2)

\* typeFilter & (1 << i), as a bool
TypeMatch(filter, i) == BitAnd(filter, 2 ^ i) # 0

\* A property test that accepts a type offering any one of the required flags.
PropertyMatchAny(flags, props) == BitAnd(flags, props) # 0

\* (memoryTypes[i].propertyFlags & properties) == properties
PropertyMatch(flags, props) == BitAnd(flags, props) = props

\* The for loop of FindMemoryType from index i on; types[i + 1] is memoryTypes[i].
RECURSIVE FindMemoryTypeFrom(_, _, _, _)
FindMemoryTypeFrom(i, filter, props, types) ==
    IF i < Len(types)
    THEN IF TypeMatch(filter, i) /\ PropertyMatch(types[i + 1], props)
         THEN [status |-> "returned", index |-> i]
         ELSE FindMemoryTypeFrom(i + 1, filter, props, types)
    ELSE [status |-> "thrown", index |-> NoImage]

\* VulkanContext::FindMemoryType
FindMemoryType(filter, props, types) == FindMemoryTypeFrom(0, filter, props, types)

\* Inputs of FindMemoryType: property flag words, type masks (one bit more than
\* the largest type count), and lists of memory types.
MemFlags == 0 .. (2 ^ MemFlagBits - 1)
TypeFilters == 0 .. (2 ^ (MaxMemoryTypes + 1) - 1)
MemoryTypeLists == UNION {[1 .. n -> MemFlags] : n \in 0 .. MaxMemoryTypes}

\* ------------------------------------------------------------ the surface
\* The client area of a window whose rendering area is w x h: the extent the
\* surface reports as capabilities.currentExtent.
SurfaceExtent(w, h) == <<w, h + ControlAreaHeight>>

\* VulkanContext::ChooseSwapExtent: the surface's current extent.
ChooseSwapExtent(w, h) == SurfaceExtent(w, h)

\* width / height of an extent as an exact fraction.
AspectRatio(extent) == <<extent[1], extent[2]>>

\* Equality of two fractions.
RatioEq(a, b) == a[1] * b[2] = a[2] * b[1]

\* Client rectangles GetClientRect may report: a minimised window, windows
\* lower than, as high as and higher than the control strip.
ClientWidths == {0, 640}
ClientHeights == {0, 40, 80, 81, 560}

\* No RecreateSwapChain is in its window loop.
NoWindowWait == [pc |-> "idle", width |-> 0, height |-> 0, seen |-> <<>>, waits |-> 0]

\* height = rect.bottom - rect.top - 80
RenderHeight(clientHeight) == clientHeight - ControlAreaHeight

\* while (width == 0 || height == 0)
WindowLoopContinues(width, height) == width = 0 \/ height = 0

\* if (width <= 0 || height <= 0) WaitMessage();
WindowLoopWaits(width, height) == width <= 0 \/ height <= 0

\* ------------------------------------------------------------ the record
\* FractalRenderer constructor, the defaults of m_ubo.
DefaultUBO ==
    [valid |-> TRUE, centerX |-> 0, centerY |-> 0, scale |-> <<1, 1>>,
     fractalType |-> 0, maxIterations |-> 100, colorPalette |-> 0,
     juliaConstant |-> JuliaDefault, multibrotPower |-> 3,
     aspectRatio |-> AspectRatio(ChooseSwapExtent(InitialWindowSize[1], InitialWindowSize[2]))]

\* 1.0f / zoom, as an exact fraction.
Recip(zoom) == <<1, zoom>>

\* A zoom that divides the previous scale instead of replacing it.
SetZoomRecordAccumulating(ubo, zoom) == [ubo EXCEPT !.scale = <<@[1], @[2] * zoom>>]

\* FractalRenderer::SetZoom
SetZoomRecord(ubo, zoom) == [ubo EXCEPT !.scale = Recip(zoom)]

\* FractalRenderer::SetPan
SetPanRecord(ubo, x, y) == [ubo EXCEPT !.centerX = x, !.centerY = y]

\* FractalRenderer::SetFractalType
SetFractalTypeRecord(ubo, type) == [ubo EXCEPT !.fractalType = type]

\* FractalRenderer::SetMaxIterations
SetMaxIterationsRecord(ubo, iterations) == [ubo EXCEPT !.maxIterations = iterations]

\* A palette setter that writes the fractal type field.
SetColorPaletteRecordIntoType(ubo, palette) == [ubo EXCEPT !.fractalType = palette]

\* FractalRenderer::SetColorPalette
SetColorPaletteRecord(ubo, palette) == [ubo EXCEPT !.colorPalette = palette]

\* A reset that restores every default of the constructor.
ResetViewRecordAllDefaults(ubo) ==
    [ubo EXCEPT !.centerX = 0, !.centerY = 0, !.scale = <<1, 1>>,
                !.juliaConstant = JuliaDefault, !.multibrotPower = 3,
                !.fractalType = 0, !.maxIterations = 100, !.colorPalette = 0]

\* FractalRenderer::ResetView
ResetViewRecord(ubo) ==
    [ubo EXCEPT !.centerX = 0, !.centerY = 0, !.scale = <<1, 1>>,
                !.juliaConstant = JuliaDefault, !.multibrotPower = 3]

\* ------------------------------------------------------------ the device
\* A reset button that leaves the cached zoom as it was.
ResetZoomKept(zoom) == zoom

\* OnControlCommand, "resetButton": m_zoom = 1.0f
ResetZoom(zoom) == <<1, 1>>

\* ZOOM_FACTOR = 1.1f of OnMouseWheel
ZOOM_FACTOR == <<11, 10>>

\* OnMouseWheel: m_zoom *= ZOOM_FACTOR for a positive delta, m_zoom /= ZOOM_FACTOR
\* otherwise.
WheelZoom(zoom, delta) ==
    IF delta > 0
    THEN <<zoom[1] * ZOOM_FACTOR[1], zoom[2] * ZOOM_FACTOR[2]>>
    ELSE <<zoom[1] * ZOOM_FACTOR[2], zoom[2] * ZOOM_FACTOR[1]>>

\* FractalRenderer::SetZoom with a zoom that is a fraction: scale = 1.0f / zoom
SetZoomRecordOfFraction(ubo, zoom) == [ubo EXCEPT !.scale = <<zoom[2], zoom[1]>>]

\* A teardown or rebuild that does not wait for the device.
DeviceWaitIdleMissing(q) == q

\* vkDeviceWaitIdle / vkQueueWaitIdle: every pending submission completes.
DeviceWaitIdle(q) == <<>>

\* The fences signaled by the completion of the submissions of q.
SignalFences(fences, q) ==
    [f \in Slots |-> fences[f] \/ (\E k \in DOMAIN q : q[k].fence = f)]

\* vkFreeCommandBuffers on all of m_commandBuffers: pending submissions that
\* name one of them now name a freed command buffer.
FreeCommandBuffers(q) == [k \in DOMAIN q |-> [q[k] EXCEPT !.cbLive = FALSE]]

\* vkDestroyFramebuffer on all of m_swapChainFramebuffers, seen from the queue.
DestroyFramebuffers(q) == [k \in DOMAIN q |-> [q[k] EXCEPT !.fbLive = FALSE]]

\* vkDestroyImageView on all swap-chain views (VulkanContext::CleanupSwapChain):
\* framebuffers built on them keep a dangling attachment.
DestroyImageViews(fbs) == [i \in DOMAIN fbs |-> [fbs[i] EXCEPT !.viewLive = FALSE]]

\* FractalRenderer::CreateFramebuffers: one framebuffer per current image view.
CreateFramebuffers ==
    [i \in 0 .. (m_swapChainImageViews - 1) |-> [view |-> i, viewLive |-> TRUE]]

\* FractalRenderer::CreateCommandBuffers: fresh command buffers, nothing recorded.
InitialCommandBuffer == [recorded |-> FALSE, framebuffer |-> NoImage, descriptorSet |-> NoImage]
CreateCommandBuffers ==
    [i \in 0 .. (m_swapChainImageViews - 1) |-> InitialCommandBuffer]

\* The image counts a device may give a swap chain: capabilities.minImageCount + 1
\* and the count vkGetSwapchainImagesKHR reports are the device's to choose.
DeviceImageCounts == NumImages .. (NumImages + 1)

\* VulkanContext::CreateSwapChain: the number of images the device hands out.
CreateSwapChain == deviceImages

\* An image-view array that is not resized to the images of the new swap chain.
CreateImageViewsNotResized(images, views) == views

\* VulkanContext::CreateImageViews: one view per image.
CreateImageViews(images, views) == images

\* FractalRenderer::CreateDescriptorSets: set i points at m_uniformBuffers[i].
CreateDescriptorSets == [i \in Images |-> i]

\* Nothing passed to the device yet by the current RenderFrame.
NoFrame ==
    [slot |-> NoImage, ubo |-> Uninit, ops |-> <<>>, fenceWaited |-> NoImage,
     acqSem |-> NoImage, acqIdx |-> NoImage, uploaded |-> NoImage,
     fenceReset |-> NoImage, recorded |-> NoImage, submit |-> Uninit,
     presents |-> <<>>, presentResult |-> "none", presentRebuilds |-> 0,
     rebuiltAfter |-> 0, fault |-> "none", acqFirst |-> NoImage, acqLast |-> NoImage]

InitProgram ==
    /\ deviceImages = NumImages
    /\ windowWait = NoWindowWait
    /\ m_fractalType = 0
    /\ m_maxIterations = 100
    /\ m_colorPalette = 0
    /\ m_zoom = <<1, 1>>
    /\ m_panX = 0
    /\ m_panY = 0
    /\ m_swapChainImages = CreateSwapChain
    /\ m_swapChainImageViews = CreateImageViews(CreateSwapChain, 0)
    /\ m_swapChainExtent = ChooseSwapExtent(InitialWindowSize[1], InitialWindowSize[2])
    /\ pc = "loop"
    /\ m_width = InitialWindowSize[1]
    /\ m_height = InitialWindowSize[2]
    /\ m_resizing = FALSE
    /\ m_framebufferResized = FALSE
    /\ swapChainLive = TRUE
    /\ m_swapChainFramebuffers = CreateFramebuffers
    /\ m_commandBuffers = CreateCommandBuffers
    /\ m_descriptorSets = CreateDescriptorSets
    /\ uniformBuffers = [i \in Images |-> Uninit]
    /\ m_ubo = DefaultUBO
    /\ m_inFlightFences = [f \in Slots |-> TRUE]
    /\ m_currentFrame = 0
    /\ queue = <<>>
    /\ imageIndex = NoImage
    /\ swapChainRecreated = FALSE
    /\ acqAttempts = 0
    /\ acqRebuilds = 0
    /\ acqResults = <<>>
    /\ frame = NoFrame
    /\ nFrames = 0
    /\ slotLog = <<>>
    /\ nStarted = 0
    /\ nPresents = 0
    /\ m_graphicsPipeline = "constructor"
    /\ m_pipelineLayout = "constructor"
    /\ m_descriptorSetLayout = "constructor"
    /\ m_renderPass = "constructor"
    /\ lastCall = [name |-> "none"]
    /\ imageAvailable = [f \in Slots |-> FALSE]
    /\ destroyed = [k \in ObjectKinds |-> 0]
    /\ recreateOps = <<>>
    /\ oneShot = NoOneShot

\* After construction: CreateUniformBuffers has asked for host-visible, coherent
\* memory (flags 2) on a device with a device-local type and a host type.
InitMemory ==
    /\ typeFilter = 3
    /\ properties = 2
    /\ memoryTypes = <<1, 3>>
    /\ memoryTypeIndex = FindMemoryType(3, 2, <<1, 3>>)

\* After construction: both shader binaries were there and the pipeline was built.
InitShaders ==
    /\ vertShaderFile = 4
    /\ fragShaderFile = 4
    /\ pipelineBuild = CreateGraphicsPipelineBuild(4, 4, "none")

Init ==
    /\ InitProgram
    /\ InitMemory
    /\ InitShaders

\* Any FindMemoryType call about to be made.
InitMem ==
    /\ InitProgram
    /\ InitShaders
    /\ typeFilter \in TypeFilters
    /\ properties \in MemFlags
    /\ memoryTypes \in MemoryTypeLists
    /\ memoryTypeIndex = [status |-> "pending", index |-> NoImage]

\* ------------------------------------------------- arguments RenderFrame passes
\* m_imageAvailableSemaphores[m_currentFrame] handed to AcquireNextImage.
AcquireSemaphore(f) == f

\* vkAcquireNextImageKHR signals the semaphore whenever it hands out an image.
SignalOnAcquire(sems, s, result) ==
    IF result \in {"VK_SUCCESS", "VK_SUBOPTIMAL_KHR"}
    THEN [sems EXCEPT ![s] = TRUE]
    ELSE sems

\* An AcquireNextImage that returns the index of its first attempt.
ReturnedImageOfFirstAttempt(first, last) == first

\* AcquireNextImage, "return imageIndex": the value the last attempt wrote.
ReturnedImage(first, last) == last

\* An upload indexed by the frame slot instead of the acquired image.
UploadTargetSlot(f, i) == f

\* UpdateUniformBuffer(imageIndex): the mapped buffer the record is copied to.
UploadTarget(f, i) == i

\* A command buffer picked by the frame slot's number.
CommandBufferIndexSlot(f, i) == f

\* m_commandBuffers[imageIndex]: the command buffer RenderFrame resets and records.
CommandBufferIndex(f, i) == i

\* A submit that hands the device no fence to signal.
SubmitInfoNoFence(f, i) == [wait |-> f, signal |-> f, fence |-> NoImage, cb |-> i]

\* VkSubmitInfo and fence of vkQueueSubmit.
SubmitInfo(f, i) == [wait |-> f, signal |-> f, fence |-> f, cb |-> i]

\* A present of the frame slot's number instead of the acquired image.
PresentInfoSlot(f, i) == [image |-> f, wait |-> f]

\* PresentImage(imageIndex, m_renderFinishedSemaphores[m_currentFrame]).
PresentInfo(f, i) == [image |-> i, wait |-> f]

\* A frame slot that is never advanced.
NextFrameStuck(f) == f

\* m_currentFrame = (m_currentFrame + 1) % MAX_FRAMES_IN_FLIGHT
NextFrame(f) == (f + 1) % MAX_FRAMES_IN_FLIGHT

\* A RenderFrame that does not wait for its fence.
FenceWaitSkipped(fences, f) == TRUE

\* vkWaitForFences(fence[f], UINT64_MAX) returns once the fence is signaled.
FenceWaitReturns(fences, f) == fences[f]

\* An acquire loop without the "only recreate the swapchain once" check.
AcquireDecisionUnbounded(result, recreated, resized) ==
    IF \/ result = "VK_ERROR_OUT_OF_DATE_KHR"
       \/ (result = "VK_SUBOPTIMAL_KHR" /\ ~recreated)
       \/ resized
    THEN "recreate"
    ELSE IF result # "VK_SUCCESS" THEN "throw" ELSE "return"

\* The branch AcquireNextImage takes on one result of vkAcquireNextImageKHR.
AcquireDecision(result, recreated, resized) ==
    IF \/ result = "VK_ERROR_OUT_OF_DATE_KHR"
       \/ (result = "VK_SUBOPTIMAL_KHR" /\ ~recreated)
       \/ resized
    THEN IF recreated THEN "throw" ELSE "recreate"
    ELSE IF result # "VK_SUCCESS" THEN "throw" ELSE "return"

\* A PresentImage that rebuilds the swap chain on every result but success.
PresentDecisionRebuildOnError(result, resized) ==
    IF result # "VK_SUCCESS" \/ resized
    THEN "recreate"
    ELSE "return"

\* The branch PresentImage takes on the result of vkQueuePresentKHR.
PresentDecision(result, resized) ==
    IF result = "VK_ERROR_OUT_OF_DATE_KHR" \/ result = "VK_SUBOPTIMAL_KHR" \/ resized
    THEN "recreate"
    ELSE IF result # "VK_SUCCESS" THEN "throw" ELSE "return"

\* A rebuild that leaves the resize flag as it found it.
CtxRecreateSwapChainKeepsFlag ==
    /\ queue' = DeviceWaitIdle(queue)
    /\ m_inFlightFences' = SignalFences(m_inFlightFences, queue)
    /\ m_swapChainFramebuffers' = DestroyImageViews(m_swapChainFramebuffers)
    /\ swapChainLive' = TRUE
    /\ m_swapChainImages' = CreateSwapChain
    /\ m_swapChainImageViews' = CreateImageViews(CreateSwapChain, 0)
    /\ m_swapChainExtent' = ChooseSwapExtent(m_width, m_height)
    /\ m_framebufferResized' = m_framebufferResized
    /\ recreateOps' = RecreateSwapChainOps
    /\ UNCHANGED <<deviceImages, windowWait>>

\* VulkanContext::RecreateSwapChain: idle wait, CleanupSwapChain, CreateSwapChain,
\* CreateImageViews, flag cleared.  The renderer's framebuffers are not touched
\* and keep the views that CleanupSwapChain destroyed.
CtxRecreateSwapChain ==
    /\ queue' = DeviceWaitIdle(queue)
    /\ m_inFlightFences' = SignalFences(m_inFlightFences, queue)
    /\ m_swapChainFramebuffers' = DestroyImageViews(m_swapChainFramebuffers)
    /\ swapChainLive' = TRUE
    /\ m_swapChainImages' = CreateSwapChain
    /\ m_swapChainImageViews' = CreateImageViews(CreateSwapChain, 0)
    /\ m_swapChainExtent' = ChooseSwapExtent(m_width, m_height)
    /\ m_framebufferResized' = FALSE
    /\ recreateOps' = RecreateSwapChainOps
    /\ UNCHANGED <<deviceImages, windowWait>>

\* ------------------------------------------------------------ message pump
\* An OnResize that rebuilds during an interactive resize too.
ResizeAppliesAlways(resizing) == TRUE

\* OnResize: "Only update Vulkan if not currently in a resize operation".
ResizeApplies(resizing) == ~resizing

\* WM_SIZE -> OnResize(width, height)
WmSize ==
    /\ pc = "loop"
    /\ \E sz \in WindowSizes :
        /\ m_width' = sz[1]
        /\ m_height' = sz[2]
    /\ IF ResizeApplies(m_resizing)
       THEN \* SetWindowSize, then FractalRenderer::RecreateSwapChain:
            \* CleanupSwapChain (no idle wait), pipeline, framebuffers, command buffers
            /\ m_framebufferResized' = TRUE
            /\ queue' = FreeCommandBuffers(DestroyFramebuffers(queue))
            /\ m_swapChainFramebuffers' = CreateFramebuffers
            /\ m_commandBuffers' = CreateCommandBuffers
            /\ m_graphicsPipeline' = "RecreateSwapChain"
            /\ m_pipelineLayout' = "RecreateSwapChain"
            /\ m_ubo' = [m_ubo EXCEPT !.aspectRatio = AspectRatio(m_swapChainExtent)]
            /\ lastCall' = [name |-> "RecreateSwapChain"]
       ELSE UNCHANGED <<m_framebufferResized, queue, m_swapChainFramebuffers, m_commandBuffers,
                        m_graphicsPipeline, m_pipelineLayout, m_ubo, lastCall>>
    /\ UNCHANGED <<pc, m_resizing, swapChainLive, m_descriptorSets, uniformBuffers,
                   m_inFlightFences, m_currentFrame, imageIndex, frame>>
    /\ UNCHANGED acqVars
    /\ UNCHANGED cntVars
    /\ UNCHANGED scVars
    /\ UNCHANGED <<m_descriptorSetLayout, m_renderPass>>
    /\ UNCHANGED memVars
    /\ UNCHANGED viewVars
    /\ UNCHANGED shaderVars
    /\ UNCHANGED oneShot
    /\ UNCHANGED imageAvailable
    /\ UNCHANGED destroyed

\* WM_ENTERSIZEMOVE
WmEnterSizeMove ==
    /\ pc = "loop"
    /\ ~m_resizing
    /\ m_resizing' = TRUE
    /\ UNCHANGED <<pc, m_width, m_height, m_framebufferResized, swapChainLive,
                   m_swapChainFramebuffers, m_commandBuffers, m_descriptorSets,
                   uniformBuffers, m_ubo, m_inFlightFences, m_currentFrame, queue,
                   imageIndex, frame>>
    /\ UNCHANGED acqVars
    /\ UNCHANGED cntVars
    /\ UNCHANGED scVars
    /\ UNCHANGED gfxVars
    /\ UNCHANGED memVars
    /\ UNCHANGED viewVars
    /\ UNCHANGED shaderVars
    /\ UNCHANGED oneShot
    /\ UNCHANGED imageAvailable
    /\ UNCHANGED destroyed
    /\ UNCHANGED lastCall

\* WM_EXITSIZEMOVE: VulkanContext::RecreateSwapChain only
WmExitSizeMove ==
    /\ pc = "loop"
    /\ m_resizing
    /\ m_resizing' = FALSE
    /\ CtxRecreateSwapChain
    /\ UNCHANGED <<pc, m_width, m_height, m_commandBuffers, m_descriptorSets,
                   uniformBuffers, m_ubo, m_currentFrame, imageIndex, frame>>
    /\ UNCHANGED acqVars
    /\ UNCHANGED cntVars
    /\ UNCHANGED gfxVars
    /\ UNCHANGED memVars
    /\ UNCHANGED viewVars
    /\ UNCHANGED shaderVars
    /\ UNCHANGED oneShot
    /\ UNCHANGED imageAvailable
    /\ UNCHANGED destroyed
    /\ UNCHANGED lastCall

loopOnly == <<pc, m_framebufferResized, swapChainLive, m_swapChainFramebuffers,
              m_commandBuffers, m_descriptorSets, uniformBuffers, m_inFlightFences,
              m_currentFrame, queue, imageIndex, frame>>

\* WindowsApplication::SetPanX followed by SetPanY: both cached coordinates are
\* stored and handed to FractalRenderer::SetPan.
SetPan ==
    /\ pc = "loop"
    /\ \E p \in PanValues : 
        /\ m_panX' = p[1]
        /\ m_panY' = p[2]
        /\ m_ubo' = SetPanRecord(m_ubo, p[1], p[2])
        /\ lastCall' = [name |-> "SetPan", x |-> p[1], y |-> p[2]]
    /\ UNCHANGED loopOnly
    /\ UNCHANGED appVars
    /\ UNCHANGED acqVars
    /\ UNCHANGED cntVars
    /\ UNCHANGED scVars
    /\ UNCHANGED gfxVars
    /\ UNCHANGED memVars
    /\ UNCHANGED <<m_fractalType, m_maxIterations, m_colorPalette, m_zoom>>
    /\ UNCHANGED shaderVars
    /\ UNCHANGED oneShot
    /\ UNCHANGED imageAvailable
    /\ UNCHANGED destroyed

\* WindowsApplication::SetZoom: the cached zoom is stored and handed to
\* FractalRenderer::SetZoom.
SetZoom ==
    /\ pc = "loop"
    /\ \E z \in ZoomValues : 
        /\ m_zoom' = <<z, 1>>
        /\ m_ubo' = SetZoomRecord(m_ubo, z)
        /\ lastCall' = [name |-> "SetZoom", zoom |-> z, scaleBefore |-> m_ubo.scale]
    /\ UNCHANGED loopOnly
    /\ UNCHANGED appVars
    /\ UNCHANGED acqVars
    /\ UNCHANGED cntVars
    /\ UNCHANGED scVars
    /\ UNCHANGED gfxVars
    /\ UNCHANGED memVars
    /\ UNCHANGED <<m_fractalType, m_maxIterations, m_colorPalette, m_panX, m_panY>>
    /\ UNCHANGED shaderVars
    /\ UNCHANGED oneShot
    /\ UNCHANGED imageAvailable
    /\ UNCHANGED destroyed

\* FractalRenderer::SetFractalType, from the combo box or WindowsApplication::SetFractalType
SetFractalType ==
    /\ pc = "loop"
    /\ \E t \in FractalTypeValues :
        /\ m_fractalType' = t
        /\ m_ubo' = SetFractalTypeRecord(m_ubo, t)
        /\ lastCall' = [name |-> "SetFractalType", type |-> t]
    /\ UNCHANGED loopOnly
    /\ UNCHANGED appVars
    /\ UNCHANGED acqVars
    /\ UNCHANGED cntVars
    /\ UNCHANGED scVars
    /\ UNCHANGED gfxVars
    /\ UNCHANGED memVars
    /\ UNCHANGED <<m_maxIterations, m_colorPalette, m_zoom, m_panX, m_panY>>
    /\ UNCHANGED shaderVars
    /\ UNCHANGED oneShot
    /\ UNCHANGED imageAvailable
    /\ UNCHANGED destroyed

\* FractalRenderer::SetMaxIterations, from the slider or WindowsApplication::SetMaxIterations
SetMaxIterations ==
    /\ pc = "loop"
    /\ \E n \in IterationValues :
        /\ m_maxIterations' = n
        /\ m_ubo' = SetMaxIterationsRecord(m_ubo, n)
        /\ lastCall' = [name |-> "SetMaxIterations", iterations |-> n]
    /\ UNCHANGED loopOnly
    /\ UNCHANGED appVars
    /\ UNCHANGED acqVars
    /\ UNCHANGED cntVars
    /\ UNCHANGED scVars
    /\ UNCHANGED gfxVars
    /\ UNCHANGED memVars
    /\ UNCHANGED <<m_fractalType, m_colorPalette, m_zoom, m_panX, m_panY>>
    /\ UNCHANGED shaderVars
    /\ UNCHANGED oneShot
    /\ UNCHANGED imageAvailable
    /\ UNCHANGED destroyed

\* FractalRenderer::SetColorPalette, from the combo box or WindowsApplication::SetColorPalette
SetColorPalette ==
    /\ pc = "loop"
    /\ \E c \in PaletteValues :
        /\ m_colorPalette' = c
        /\ m_ubo' = SetColorPaletteRecord(m_ubo, c)
        /\ lastCall' = [name |-> "SetColorPalette", palette |-> c]
    /\ UNCHANGED loopOnly
    /\ UNCHANGED appVars
    /\ UNCHANGED acqVars
    /\ UNCHANGED cntVars
    /\ UNCHANGED scVars
    /\ UNCHANGED gfxVars
    /\ UNCHANGED memVars
    /\ UNCHANGED <<m_fractalType, m_maxIterations, m_zoom, m_panX, m_panY>>
    /\ UNCHANGED shaderVars
    /\ UNCHANGED oneShot
    /\ UNCHANGED imageAvailable
    /\ UNCHANGED destroyed

\* FractalRenderer::ResetView, from the reset button
ResetView ==
    /\ pc = "loop"
    /\ m_zoom' = ResetZoom(m_zoom)
    /\ m_panX' = 0
    /\ m_panY' = 0
    /\ m_ubo' = ResetViewRecord(m_ubo)
    /\ lastCall' = [name |-> "ResetView", before |-> m_ubo]
    /\ UNCHANGED loopOnly
    /\ UNCHANGED appVars
    /\ UNCHANGED acqVars
    /\ UNCHANGED cntVars
    /\ UNCHANGED scVars
    /\ UNCHANGED gfxVars
    /\ UNCHANGED memVars
    /\ UNCHANGED <<m_fractalType, m_maxIterations, m_colorPalette>>
    /\ UNCHANGED shaderVars
    /\ UNCHANGED oneShot
    /\ UNCHANGED imageAvailable
    /\ UNCHANGED destroyed

\* WM_QUIT: running = false
WmQuit ==
    /\ pc = "loop"
    /\ pc' = "quit"
    /\ UNCHANGED <<m_framebufferResized, swapChainLive, m_swapChainFramebuffers,
                   m_commandBuffers, m_descriptorSets, uniformBuffers, m_ubo,
                   m_inFlightFences, m_currentFrame, queue, imageIndex, frame>>
    /\ UNCHANGED appVars
    /\ UNCHANGED acqVars
    /\ UNCHANGED cntVars
    /\ UNCHANGED scVars
    /\ UNCHANGED gfxVars
    /\ UNCHANGED memVars
    /\ UNCHANGED viewVars
    /\ UNCHANGED shaderVars
    /\ UNCHANGED oneShot
    /\ UNCHANGED imageAvailable
    /\ UNCHANGED destroyed
    /\ UNCHANGED lastCall

\* ------------------------------------------------------------ RenderFrame
\* Run: "if (running && m_fractalRenderer) RenderFrame()" -- the call itself
BeginRenderFrame ==
    /\ pc = "loop"
    /\ nStarted < MaxFrames
    /\ pc' = "wait"
    /\ nStarted' = nStarted + 1
    /\ frame' = [NoFrame EXCEPT !.slot = m_currentFrame, !.ubo = m_ubo]
    /\ imageIndex' = NoImage
    /\ UNCHANGED <<m_framebufferResized, swapChainLive, m_swapChainFramebuffers,
                   m_commandBuffers, m_descriptorSets, uniformBuffers, m_ubo,
                   m_inFlightFences, m_currentFrame, queue, nFrames, slotLog, nPresents>>
    /\ UNCHANGED appVars
    /\ UNCHANGED acqVars
    /\ UNCHANGED scVars
    /\ UNCHANGED gfxVars
    /\ UNCHANGED memVars
    /\ UNCHANGED viewVars
    /\ UNCHANGED shaderVars
    /\ UNCHANGED oneShot
    /\ UNCHANGED imageAvailable
    /\ UNCHANGED destroyed
    /\ UNCHANGED lastCall

\* vkWaitForFences(m_inFlightFences[m_currentFrame]); then AcquireNextImage is entered
WaitForFences ==
    /\ pc = "wait"
    /\ FenceWaitReturns(m_inFlightFences, m_currentFrame)
    /\ pc' = "acquire"
    /\ frame' = [frame EXCEPT !.fenceWaited = m_currentFrame,
                              !.acqSem = AcquireSemaphore(m_currentFrame),
                              !.ops = Append(@, "wait")]
    /\ swapChainRecreated' = FALSE
    /\ acqAttempts' = 0
    /\ acqRebuilds' = 0
    /\ acqResults' = <<>>
    /\ UNCHANGED <<m_framebufferResized, swapChainLive, m_swapChainFramebuffers,
                   m_commandBuffers, m_descriptorSets, uniformBuffers, m_ubo,
                   m_inFlightFences, m_currentFrame, queue, imageIndex>>
    /\ UNCHANGED appVars
    /\ UNCHANGED cntVars
    /\ UNCHANGED scVars
    /\ UNCHANGED gfxVars
    /\ UNCHANGED memVars
    /\ UNCHANGED viewVars
    /\ UNCHANGED shaderVars
    /\ UNCHANGED oneShot
    /\ UNCHANGED imageAvailable
    /\ UNCHANGED destroyed
    /\ UNCHANGED lastCall

\* One iteration of the do-while of VulkanContext::AcquireNextImage.  The device
\* may hand out any image index: the image count and the order in which the
\* presentation engine releases images are not under the program's control.
AcquireNextImage ==
    /\ pc = "acquire"
    /\ \E result \in VkResults :
       \E i \in (IF result \in {"VK_SUCCESS", "VK_SUBOPTIMAL_KHR"} THEN Images ELSE {imageIndex}) :
        LET d == AcquireDecision(result, swapChainRecreated, m_framebufferResized)
            seen == [frame EXCEPT !.fault = IF DeviceFailure(result) THEN "acquire" ELSE @,
                                  !.acqFirst = IF acqAttempts = 0 THEN i ELSE @,
                                  !.acqLast = i]
            returned == ReturnedImage(seen.acqFirst, i)
        IN
        /\ acqAttempts' = acqAttempts + 1
        /\ acqResults' = Append(acqResults, result)
        /\ imageIndex' = IF d = "return" THEN returned ELSE i
        /\ imageAvailable' = SignalOnAcquire(imageAvailable,
                                AcquireSemaphore(m_currentFrame), result)
        /\ CASE d = "recreate" ->
                  /\ CtxRecreateSwapChain
                  /\ swapChainRecreated' = TRUE
                  /\ acqRebuilds' = acqRebuilds + 1
                  /\ frame' = seen
                  /\ UNCHANGED pc
             [] d = "throw" ->
                  /\ pc' = "failed"
                  /\ frame' = seen
                  /\ UNCHANGED <<swapChainRecreated, acqRebuilds, queue, m_inFlightFences,
                                 m_swapChainFramebuffers, swapChainLive, m_framebufferResized>>
                  /\ UNCHANGED scVars
             [] d = "return" ->
                  /\ pc' = "upload"
                  /\ frame' = [seen EXCEPT !.acqIdx = returned, !.ops = Append(@, "acquire")]
                  /\ UNCHANGED <<swapChainRecreated, acqRebuilds, queue, m_inFlightFences,
                                 m_swapChainFramebuffers, swapChainLive, m_framebufferResized>>
                  /\ UNCHANGED scVars
    /\ UNCHANGED <<m_commandBuffers, m_descriptorSets, uniformBuffers, m_ubo, m_currentFrame>>
    /\ UNCHANGED appVars
    /\ UNCHANGED cntVars
    /\ UNCHANGED gfxVars
    /\ UNCHANGED memVars
    /\ UNCHANGED viewVars
    /\ UNCHANGED shaderVars
    /\ UNCHANGED oneShot
    /\ UNCHANGED destroyed
    /\ UNCHANGED lastCall

frameStep == <<m_framebufferResized, swapChainLive, m_swapChainFramebuffers,
               m_descriptorSets, m_ubo, m_currentFrame, imageIndex>>

\* UpdateUniformBuffer(imageIndex): memcpy of m_ubo into the mapped buffer
UpdateUniformBuffer ==
    /\ pc = "upload"
    /\ LET t == UploadTarget(m_currentFrame, imageIndex) IN
        /\ uniformBuffers' = [uniformBuffers EXCEPT ![t] = m_ubo]
        /\ frame' = [frame EXCEPT !.uploaded = t, !.ops = Append(@, "upload")]
    /\ pc' = "resetFence"
    /\ UNCHANGED <<m_commandBuffers, m_inFlightFences, queue>>
    /\ UNCHANGED frameStep
    /\ UNCHANGED appVars
    /\ UNCHANGED acqVars
    /\ UNCHANGED cntVars
    /\ UNCHANGED scVars
    /\ UNCHANGED gfxVars
    /\ UNCHANGED memVars
    /\ UNCHANGED viewVars
    /\ UNCHANGED shaderVars
    /\ UNCHANGED oneShot
    /\ UNCHANGED imageAvailable
    /\ UNCHANGED destroyed
    /\ UNCHANGED lastCall

\* vkResetFences(m_inFlightFences[m_currentFrame])
ResetFences ==
    /\ pc = "resetFence"
    /\ m_inFlightFences' = [m_inFlightFences EXCEPT ![m_currentFrame] = FALSE]
    /\ frame' = [frame EXCEPT !.fenceReset = m_currentFrame, !.ops = Append(@, "resetFence")]
    /\ pc' = "resetCmd"
    /\ UNCHANGED <<m_commandBuffers, uniformBuffers, queue>>
    /\ UNCHANGED frameStep
    /\ UNCHANGED appVars
    /\ UNCHANGED acqVars
    /\ UNCHANGED cntVars
    /\ UNCHANGED scVars
    /\ UNCHANGED gfxVars
    /\ UNCHANGED memVars
    /\ UNCHANGED viewVars
    /\ UNCHANGED shaderVars
    /\ UNCHANGED oneShot
    /\ UNCHANGED imageAvailable
    /\ UNCHANGED destroyed
    /\ UNCHANGED lastCall

\* vkResetCommandBuffer(m_commandBuffers[imageIndex]); the result is not looked at
ResetCommandBuffer ==
    /\ pc = "resetCmd"
    /\ m_commandBuffers' = [m_commandBuffers EXCEPT
            ![CommandBufferIndex(m_currentFrame, imageIndex)] = InitialCommandBuffer]
    /\ frame' = [frame EXCEPT !.ops = Append(@, "resetCmd")]
    /\ pc' = "record"
    /\ UNCHANGED <<m_inFlightFences, uniformBuffers, queue>>
    /\ UNCHANGED frameStep
    /\ UNCHANGED appVars
    /\ UNCHANGED acqVars
    /\ UNCHANGED cntVars
    /\ UNCHANGED scVars
    /\ UNCHANGED gfxVars
    /\ UNCHANGED memVars
    /\ UNCHANGED viewVars
    /\ UNCHANGED shaderVars
    /\ UNCHANGED oneShot
    /\ UNCHANGED imageAvailable
    /\ UNCHANGED destroyed
    /\ UNCHANGED lastCall

\* vkResetFences reports a failure: the fence is not reset, the result is not
\* looked at and RenderFrame goes on.
ResetFencesFails ==
    /\ pc = "resetFence"
    /\ frame' = [frame EXCEPT !.fault = "resetFence", !.ops = Append(@, "resetFence")]
    /\ pc' = "resetCmd"
    /\ UNCHANGED <<m_inFlightFences, m_commandBuffers, uniformBuffers, queue>>
    /\ UNCHANGED frameStep
    /\ UNCHANGED appVars
    /\ UNCHANGED acqVars
    /\ UNCHANGED cntVars
    /\ UNCHANGED scVars
    /\ UNCHANGED gfxVars
    /\ UNCHANGED memVars
    /\ UNCHANGED viewVars
    /\ UNCHANGED shaderVars
    /\ UNCHANGED oneShot
    /\ UNCHANGED imageAvailable
    /\ UNCHANGED destroyed
    /\ UNCHANGED lastCall

\* vkResetCommandBuffer reports a failure: the command buffer is not reset, the
\* result is not looked at and RenderFrame goes on.
ResetCommandBufferFails ==
    /\ pc = "resetCmd"
    /\ frame' = [frame EXCEPT !.fault = "resetCmd", !.ops = Append(@, "resetCmd")]
    /\ pc' = "record"
    /\ UNCHANGED <<m_inFlightFences, m_commandBuffers, uniformBuffers, queue>>
    /\ UNCHANGED frameStep
    /\ UNCHANGED appVars
    /\ UNCHANGED acqVars
    /\ UNCHANGED cntVars
    /\ UNCHANGED scVars
    /\ UNCHANGED gfxVars
    /\ UNCHANGED memVars
    /\ UNCHANGED viewVars
    /\ UNCHANGED shaderVars
    /\ UNCHANGED oneShot
    /\ UNCHANGED imageAvailable
    /\ UNCHANGED destroyed
    /\ UNCHANGED lastCall

\* RecordCommandBuffer(m_commandBuffers[imageIndex], imageIndex); vkBeginCommandBuffer
\* or vkEndCommandBuffer may fail
RecordCommandBuffer ==
    /\ pc = "record"
    /\ \E ok \in BOOLEAN :
        IF ok
        THEN /\ m_commandBuffers' = [m_commandBuffers EXCEPT
                    ![CommandBufferIndex(m_currentFrame, imageIndex)] =
                    [recorded |-> TRUE, framebuffer |-> imageIndex, descriptorSet |-> imageIndex]]
             /\ frame' = [frame EXCEPT !.recorded = imageIndex, !.ops = Append(@, "record")]
             /\ pc' = "submit"
        ELSE /\ pc' = "failed"
             /\ frame' = [frame EXCEPT !.fault = "record"]
             /\ UNCHANGED m_commandBuffers
    /\ UNCHANGED <<m_inFlightFences, uniformBuffers, queue>>
    /\ UNCHANGED frameStep
    /\ UNCHANGED appVars
    /\ UNCHANGED acqVars
    /\ UNCHANGED cntVars
    /\ UNCHANGED scVars
    /\ UNCHANGED gfxVars
    /\ UNCHANGED memVars
    /\ UNCHANGED viewVars
    /\ UNCHANGED shaderVars
    /\ UNCHANGED oneShot
    /\ UNCHANGED imageAvailable
    /\ UNCHANGED destroyed
    /\ UNCHANGED lastCall

\* vkQueueSubmit(graphicsQueue, submitInfo, m_inFlightFences[m_currentFrame])
QueueSubmit ==
    /\ pc = "submit"
    /\ \E ok \in BOOLEAN :
        IF ok
        THEN LET si == SubmitInfo(m_currentFrame, imageIndex)
                 cb == m_commandBuffers[si.cb] IN
             /\ queue' = Append(queue,
                    [fence |-> si.fence, cb |-> si.cb, cbLive |-> TRUE, fbLive |-> TRUE,
                     framebuffer |-> cb.framebuffer,
                     buffer |-> m_descriptorSets[cb.descriptorSet]])
             /\ frame' = [frame EXCEPT !.submit = si, !.ops = Append(@, "submit")]
             /\ imageAvailable' = [imageAvailable EXCEPT ![si.wait] = FALSE]
             /\ pc' = "present"
        ELSE /\ pc' = "failed"
             /\ frame' = [frame EXCEPT !.fault = "submit"]
             /\ UNCHANGED <<queue, imageAvailable>>
    /\ UNCHANGED <<m_commandBuffers, m_inFlightFences, uniformBuffers>>
    /\ UNCHANGED frameStep
    /\ UNCHANGED appVars
    /\ UNCHANGED acqVars
    /\ UNCHANGED cntVars
    /\ UNCHANGED scVars
    /\ UNCHANGED gfxVars
    /\ UNCHANGED memVars
    /\ UNCHANGED viewVars
    /\ UNCHANGED shaderVars
    /\ UNCHANGED oneShot
    /\ UNCHANGED destroyed
    /\ UNCHANGED lastCall

\* VulkanContext::PresentImage(imageIndex, renderFinished[m_currentFrame])
PresentImage ==
    /\ pc = "present"
    /\ nPresents' = nPresents + 1
    /\ \E result \in VkResults :
        LET d == PresentDecision(result, m_framebufferResized)
            presented == [frame EXCEPT
                            !.presents = Append(@, PresentInfo(m_currentFrame, imageIndex)),
                            !.ops = Append(@, "present"),
                            !.presentResult = result,
                            !.fault = IF DeviceFailure(result) THEN "present" ELSE @]
        IN
        CASE d = "recreate" ->
                /\ CtxRecreateSwapChain
                /\ frame' = [presented EXCEPT !.presentRebuilds = @ + 1,
                                              !.rebuiltAfter = Len(presented.presents)]
                /\ pc' = "advance"
          [] d = "throw" ->
                /\ pc' = "failed"
                /\ frame' = presented
                /\ UNCHANGED <<queue, m_inFlightFences, m_swapChainFramebuffers,
                               swapChainLive, m_framebufferResized>>
                /\ UNCHANGED scVars
          [] d = "return" ->
                /\ pc' = "advance"
                /\ frame' = presented
                /\ UNCHANGED <<queue, m_inFlightFences, m_swapChainFramebuffers,
                               swapChainLive, m_framebufferResized>>
                /\ UNCHANGED scVars
    /\ UNCHANGED <<m_commandBuffers, m_descriptorSets, uniformBuffers, m_ubo,
                   m_currentFrame, imageIndex, nFrames, slotLog, nStarted>>
    /\ UNCHANGED appVars
    /\ UNCHANGED acqVars
    /\ UNCHANGED gfxVars
    /\ UNCHANGED memVars
    /\ UNCHANGED viewVars
    /\ UNCHANGED shaderVars
    /\ UNCHANGED oneShot
    /\ UNCHANGED imageAvailable
    /\ UNCHANGED destroyed
    /\ UNCHANGED lastCall

\* m_currentFrame = (m_currentFrame + 1) % MAX_FRAMES_IN_FLIGHT; RenderFrame returns
AdvanceFrame ==
    /\ pc = "advance"
    /\ m_currentFrame' = NextFrame(m_currentFrame)
    /\ nFrames' = nFrames + 1
    /\ slotLog' = Append(slotLog, frame.slot)
    /\ pc' = "loop"
    /\ UNCHANGED <<m_framebufferResized, swapChainLive, m_swapChainFramebuffers,
                   m_commandBuffers, m_descriptorSets, uniformBuffers, m_ubo,
                   m_inFlightFences, queue, imageIndex, frame, nStarted, nPresents>>
    /\ UNCHANGED appVars
    /\ UNCHANGED acqVars
    /\ UNCHANGED scVars
    /\ UNCHANGED gfxVars
    /\ UNCHANGED memVars
    /\ UNCHANGED viewVars
    /\ UNCHANGED shaderVars
    /\ UNCHANGED oneShot
    /\ UNCHANGED imageAvailable
    /\ UNCHANGED destroyed
    /\ UNCHANGED lastCall

\* ------------------------------------------------------------ the device
\* The graphics queue finishes its oldest submission and signals its fence
\* (fence signal operations of one queue happen in submission order).
GpuComplete ==
    /\ queue # <<>>
    /\ m_inFlightFences' = [m_inFlightFences EXCEPT ![Head(queue).fence] = TRUE]
    /\ queue' = Tail(queue)
    /\ UNCHANGED <<pc, m_framebufferResized, swapChainLive, m_swapChainFramebuffers,
                   m_commandBuffers, m_descriptorSets, uniformBuffers, m_ubo,
                   m_currentFrame, imageIndex, frame>>
    /\ UNCHANGED appVars
    /\ UNCHANGED acqVars
    /\ UNCHANGED cntVars
    /\ UNCHANGED scVars
    /\ UNCHANGED gfxVars
    /\ UNCHANGED memVars
    /\ UNCHANGED viewVars
    /\ UNCHANGED shaderVars
    /\ UNCHANGED oneShot
    /\ UNCHANGED imageAvailable
    /\ UNCHANGED destroyed
    /\ UNCHANGED lastCall

\* ------------------------------------------------------------ teardown
\* Run, after the loop (WM_QUIT or the catch block): vkDeviceWaitIdle
RunExit ==
    /\ pc \in {"quit", "failed"}
    /\ queue' = DeviceWaitIdle(queue)
    /\ m_inFlightFences' = SignalFences(m_inFlightFences, queue)
    /\ pc' = "exited"
    /\ UNCHANGED <<m_framebufferResized, swapChainLive, m_swapChainFramebuffers,
                   m_commandBuffers, m_descriptorSets, uniformBuffers, m_ubo,
                   m_currentFrame, imageIndex, frame>>
    /\ UNCHANGED appVars
    /\ UNCHANGED acqVars
    /\ UNCHANGED cntVars
    /\ UNCHANGED scVars
    /\ UNCHANGED gfxVars
    /\ UNCHANGED memVars
    /\ UNCHANGED viewVars
    /\ UNCHANGED shaderVars
    /\ UNCHANGED oneShot
    /\ UNCHANGED imageAvailable
    /\ UNCHANGED destroyed
    /\ UNCHANGED lastCall

\* FractalRenderer::Cleanup: vkDeviceWaitIdle, then sync objects, descriptor pool,
\* parameter buffers, CleanupSwapChain (framebuffers, command buffers, pipeline),
\* descriptor set layout, render pass.  Called by ~WindowsApplication and again
\* by ~FractalRenderer.
Cleanup ==
    /\ pc \in {"exited", "cleaned"}
    /\ queue' = FreeCommandBuffers(DestroyFramebuffers(DeviceWaitIdle(queue)))
    /\ m_inFlightFences' = SignalFences(m_inFlightFences, queue)
    /\ m_commandBuffers' = <<>>
    /\ pc' = IF pc = "exited" THEN "cleaned" ELSE "rendererDestroyed"
    /\ UNCHANGED <<m_framebufferResized, swapChainLive, m_swapChainFramebuffers,
                   m_descriptorSets, uniformBuffers, m_ubo, m_currentFrame,
                   imageIndex, frame>>
    /\ UNCHANGED appVars
    /\ UNCHANGED acqVars
    /\ UNCHANGED cntVars
    /\ UNCHANGED scVars
    /\ m_graphicsPipeline' = "VK_NULL_HANDLE"
    /\ m_pipelineLayout' = "VK_NULL_HANDLE"
    /\ m_descriptorSetLayout' = "destroyed"
    /\ m_renderPass' = "destroyed"
    /\ UNCHANGED memVars
    /\ UNCHANGED viewVars
    /\ UNCHANGED shaderVars
    /\ UNCHANGED oneShot
    /\ UNCHANGED imageAvailable
    /\ destroyed' = CleanupDestroys(destroyed)
    /\ UNCHANGED lastCall

\* VulkanContext::~VulkanContext: vkDeviceWaitIdle, CleanupSwapChain, command pool, device
DestroyContext ==
    /\ pc = "rendererDestroyed"
    /\ queue' = DeviceWaitIdle(queue)
    /\ m_inFlightFences' = SignalFences(m_inFlightFences, queue)
    /\ m_swapChainFramebuffers' = DestroyImageViews(m_swapChainFramebuffers)
    /\ swapChainLive' = FALSE
    /\ pc' = "contextDestroyed"
    /\ UNCHANGED <<m_framebufferResized, m_commandBuffers, m_descriptorSets,
                   uniformBuffers, m_ubo, m_currentFrame, imageIndex, frame>>
    /\ UNCHANGED appVars
    /\ UNCHANGED acqVars
    /\ UNCHANGED cntVars
    /\ m_swapChainImages' = 0
    /\ m_swapChainImageViews' = 0
    /\ UNCHANGED <<m_swapChainExtent, recreateOps, deviceImages, windowWait>>
    /\ UNCHANGED gfxVars
    /\ UNCHANGED memVars
    /\ UNCHANGED viewVars
    /\ UNCHANGED shaderVars
    /\ UNCHANGED oneShot
    /\ UNCHANGED imageAvailable
    /\ UNCHANGED destroyed
    /\ UNCHANGED lastCall

\* One step of RenderFrame.
\* FractalRenderer::CreateGraphicsPipeline called with the shader files as they
\* are on disk.
CallCreateGraphicsPipeline ==
    /\ pipelineBuild.status = "pending"
    /\ \E failure \in BuildFailures :
        pipelineBuild' = CreateGraphicsPipelineBuild(vertShaderFile, fragShaderFile, failure)
    /\ UNCHANGED <<vertShaderFile, fragShaderFile>>
    /\ UNCHANGED loopOnly
    /\ UNCHANGED <<m_ubo, lastCall, oneShot, imageAvailable, destroyed>>
    /\ UNCHANGED appVars
    /\ UNCHANGED acqVars
    /\ UNCHANGED cntVars
    /\ UNCHANGED scVars
    /\ UNCHANGED gfxVars
    /\ UNCHANGED memVars
    /\ UNCHANGED viewVars

\* Any two shader files, present or not, before a pipeline build.
InitBuild ==
    /\ InitProgram
    /\ InitMemory
    /\ vertShaderFile \in ShaderFileSizes
    /\ fragShaderFile \in ShaderFileSizes
    /\ pipelineBuild = NoBuild

SpecShaders == InitBuild /\ [][CallCreateGraphicsPipeline]_vars

oneShotOnly == <<m_ubo, lastCall, imageAvailable, destroyed>>

\* VulkanContext::BeginSingleTimeCommands: vkAllocateCommandBuffers, vkBeginCommandBuffer
BeginSingleTimeCommands ==
    /\ oneShot.pc = "none"
    /\ \E allocated \in VkResults, begun \in VkResults :
        oneShot' = OneShotCall(OneShotCall(oneShot, "allocate", allocated, "allocated"),
                               "begin", begun, "begun")
    /\ UNCHANGED oneShotOnly
    /\ UNCHANGED loopOnly
    /\ UNCHANGED appVars
    /\ UNCHANGED acqVars
    /\ UNCHANGED cntVars
    /\ UNCHANGED scVars
    /\ UNCHANGED gfxVars
    /\ UNCHANGED memVars
    /\ UNCHANGED viewVars
    /\ UNCHANGED shaderVars

\* EndSingleTimeCommands: vkEndCommandBuffer
OneShotEndRecording ==
    /\ oneShot.pc = "begun"
    /\ \E result \in VkResults : oneShot' = OneShotCall(oneShot, "end", result, "ended")
    /\ UNCHANGED oneShotOnly
    /\ UNCHANGED loopOnly
    /\ UNCHANGED appVars
    /\ UNCHANGED acqVars
    /\ UNCHANGED cntVars
    /\ UNCHANGED scVars
    /\ UNCHANGED gfxVars
    /\ UNCHANGED memVars
    /\ UNCHANGED viewVars
    /\ UNCHANGED shaderVars

\* EndSingleTimeCommands: vkQueueSubmit with no fence
OneShotSubmit ==
    /\ oneShot.pc = "ended"
    /\ \E result \in VkResults : oneShot' = OneShotCall(oneShot, "submit", result, "submitted")
    /\ UNCHANGED oneShotOnly
    /\ UNCHANGED loopOnly
    /\ UNCHANGED appVars
    /\ UNCHANGED acqVars
    /\ UNCHANGED cntVars
    /\ UNCHANGED scVars
    /\ UNCHANGED gfxVars
    /\ UNCHANGED memVars
    /\ UNCHANGED viewVars
    /\ UNCHANGED shaderVars

\* EndSingleTimeCommands: vkQueueWaitIdle
OneShotWaitIdle ==
    /\ oneShot.pc = "submitted"
    /\ \E result \in VkResults : oneShot' = OneShotCall(oneShot, "waitIdle", result, "idle")
    /\ UNCHANGED oneShotOnly
    /\ UNCHANGED loopOnly
    /\ UNCHANGED appVars
    /\ UNCHANGED acqVars
    /\ UNCHANGED cntVars
    /\ UNCHANGED scVars
    /\ UNCHANGED gfxVars
    /\ UNCHANGED memVars
    /\ UNCHANGED viewVars
    /\ UNCHANGED shaderVars

\* EndSingleTimeCommands: vkFreeCommandBuffers (returns void), then the return
OneShotFree ==
    /\ oneShot.pc = "idle"
    /\ oneShot' = [oneShot EXCEPT !.ops = Append(@, "free"), !.frees = @ + 1, !.pc = "done"]
    /\ UNCHANGED oneShotOnly
    /\ UNCHANGED loopOnly
    /\ UNCHANGED appVars
    /\ UNCHANGED acqVars
    /\ UNCHANGED cntVars
    /\ UNCHANGED scVars
    /\ UNCHANGED gfxVars
    /\ UNCHANGED memVars
    /\ UNCHANGED viewVars
    /\ UNCHANGED shaderVars

NextOneShot ==
    \/ BeginSingleTimeCommands
    \/ OneShotEndRecording
    \/ OneShotSubmit
    \/ OneShotWaitIdle
    \/ OneShotFree

SpecOneShot == Init /\ [][NextOneShot]_vars

RenderFrameStep ==
    \/ WaitForFences
    \/ AcquireNextImage
    \/ UpdateUniformBuffer
    \/ ResetFences
    \/ ResetCommandBuffer
    \/ RecordCommandBuffer
    \/ QueueSubmit
    \/ PresentImage
    \/ AdvanceFrame

\* The render loop with the Parameter Store mutators of pan and zoom between
\* frames, without resize messages: the upload path.
NextUpload ==
    \/ SetPan
    \/ SetZoom
    \/ WmQuit
    \/ BeginRenderFrame
    \/ RenderFrameStep
    \/ GpuComplete
    \/ RunExit
    \/ Cleanup
    \/ DestroyContext

SpecUpload == Init /\ [][NextUpload]_vars

\* VulkanContext::RecreateSwapChain is entered: int width = 0, height = 0;
EnterRecreateSwapChain ==
    /\ windowWait.pc = "idle"
    /\ windowWait' = [NoWindowWait EXCEPT !.pc = "looping"]
    /\ UNCHANGED <<m_swapChainImages, m_swapChainImageViews, m_swapChainExtent, recreateOps,
                   deviceImages>>
    /\ UNCHANGED loopOnly
    /\ UNCHANGED <<m_ubo, lastCall, oneShot, imageAvailable, destroyed>>
    /\ UNCHANGED appVars
    /\ UNCHANGED acqVars
    /\ UNCHANGED cntVars
    /\ UNCHANGED gfxVars
    /\ UNCHANGED memVars
    /\ UNCHANGED viewVars
    /\ UNCHANGED shaderVars

\* One pass of the window loop: GetClientRect, the two dimensions, WaitMessage
\* if one of them is not positive, then the loop test; the function goes on to
\* vkDeviceWaitIdle when the test fails.
WindowLoopPass ==
    /\ windowWait.pc = "looping"
    /\ Len(windowWait.seen) < MaxWaitRounds
    /\ \E cw \in ClientWidths, ch \in ClientHeights :
        LET width == cw
            height == RenderHeight(ch)
        IN windowWait' =
            [pc |-> IF WindowLoopContinues(width, height) THEN "looping" ELSE "proceeded",
             width |-> width,
             height |-> height,
             seen |-> Append(windowWait.seen, <<width, height>>),
             waits |-> windowWait.waits + (IF WindowLoopWaits(width, height) THEN 1 ELSE 0)]
    /\ UNCHANGED <<m_swapChainImages, m_swapChainImageViews, m_swapChainExtent, recreateOps,
                   deviceImages>>
    /\ UNCHANGED loopOnly
    /\ UNCHANGED <<m_ubo, lastCall, oneShot, imageAvailable, destroyed>>
    /\ UNCHANGED appVars
    /\ UNCHANGED acqVars
    /\ UNCHANGED cntVars
    /\ UNCHANGED gfxVars
    /\ UNCHANGED memVars
    /\ UNCHANGED viewVars
    /\ UNCHANGED shaderVars

NextWindowLoop ==
    \/ EnterRecreateSwapChain
    \/ WindowLoopPass

SpecWindowLoop == Init /\ [][NextWindowLoop]_vars

\* The surface changes between two messages (another display, another present
\* mode): the next swap chain the device creates has another number of images.
SurfaceChanges ==
    /\ pc = "loop"
    /\ \E n \in DeviceImageCounts \ {deviceImages} : deviceImages' = n
    /\ UNCHANGED <<m_swapChainImages, m_swapChainImageViews, m_swapChainExtent, recreateOps,
                   windowWait>>
    /\ UNCHANGED loopOnly
    /\ UNCHANGED <<m_ubo, lastCall, oneShot, imageAvailable, destroyed>>
    /\ UNCHANGED appVars
    /\ UNCHANGED acqVars
    /\ UNCHANGED cntVars
    /\ UNCHANGED gfxVars
    /\ UNCHANGED memVars
    /\ UNCHANGED viewVars
    /\ UNCHANGED shaderVars

\* The window messages that resize, on a surface whose image count may change.
NextImages ==
    \/ SurfaceChanges
    \/ WmSize
    \/ WmEnterSizeMove
    \/ WmExitSizeMove

SpecImages == Init /\ [][NextImages]_vars

viewOnly == <<oneShot, imageAvailable, destroyed>>

\* WindowsApplication::SetPanX
SetPanX ==
    /\ pc = "loop"
    /\ \E x \in {p[1] : p \in PanValues} :
        /\ m_panX' = x
        /\ m_ubo' = SetPanRecord(m_ubo, x, m_panY)
        /\ lastCall' = [name |-> "SetPanX", x |-> x]
    /\ UNCHANGED <<m_fractalType, m_maxIterations, m_colorPalette, m_zoom, m_panY>>
    /\ UNCHANGED viewOnly
    /\ UNCHANGED loopOnly
    /\ UNCHANGED appVars
    /\ UNCHANGED acqVars
    /\ UNCHANGED cntVars
    /\ UNCHANGED scVars
    /\ UNCHANGED gfxVars
    /\ UNCHANGED memVars
    /\ UNCHANGED shaderVars

\* WindowsApplication::SetPanY
SetPanY ==
    /\ pc = "loop"
    /\ \E y \in {p[2] : p \in PanValues} :
        /\ m_panY' = y
        /\ m_ubo' = SetPanRecord(m_ubo, m_panX, y)
        /\ lastCall' = [name |-> "SetPanY", y |-> y]
    /\ UNCHANGED <<m_fractalType, m_maxIterations, m_colorPalette, m_zoom, m_panX>>
    /\ UNCHANGED viewOnly
    /\ UNCHANGED loopOnly
    /\ UNCHANGED appVars
    /\ UNCHANGED acqVars
    /\ UNCHANGED cntVars
    /\ UNCHANGED scVars
    /\ UNCHANGED gfxVars
    /\ UNCHANGED memVars
    /\ UNCHANGED shaderVars

\* WM_MOUSEWHEEL -> OnMouseWheel(delta): the cached zoom is scaled and handed to
\* FractalRenderer::SetZoom.
OnMouseWheel ==
    /\ pc = "loop"
    /\ m_zoom[1] <= MaxZoomTerm
    /\ m_zoom[2] <= MaxZoomTerm
    /\ \E delta \in {0 - 120, 120} :
        /\ m_zoom' = WheelZoom(m_zoom, delta)
        /\ m_ubo' = SetZoomRecordOfFraction(m_ubo, m_zoom')
        /\ lastCall' = [name |-> "OnMouseWheel", delta |-> delta]
    /\ UNCHANGED <<m_fractalType, m_maxIterations, m_colorPalette, m_panX, m_panY>>
    /\ UNCHANGED viewOnly
    /\ UNCHANGED loopOnly
    /\ UNCHANGED appVars
    /\ UNCHANGED acqVars
    /\ UNCHANGED cntVars
    /\ UNCHANGED scVars
    /\ UNCHANGED gfxVars
    /\ UNCHANGED memVars
    /\ UNCHANGED shaderVars

\* WM_MOUSEMOVE with the left button down -> OnMouseMove: the cached pan moves
\* by the drag, dx and dy being the mouse deltas already scaled to fractal
\* coordinates, and is handed to FractalRenderer::SetPan.
OnMouseMove ==
    /\ pc = "loop"
    /\ \E dx \in {0 - 1, 0, 1}, dy \in {0 - 1, 0, 1} :
        /\ m_panX + dx \in (0 - MaxPan) .. MaxPan
        /\ m_panY - dy \in (0 - MaxPan) .. MaxPan
        /\ m_panX' = m_panX + dx
        /\ m_panY' = m_panY - dy
        /\ m_ubo' = SetPanRecord(m_ubo, m_panX', m_panY')
        /\ lastCall' = [name |-> "OnMouseMove"]
    /\ UNCHANGED <<m_fractalType, m_maxIterations, m_colorPalette, m_zoom>>
    /\ UNCHANGED viewOnly
    /\ UNCHANGED loopOnly
    /\ UNCHANGED appVars
    /\ UNCHANGED acqVars
    /\ UNCHANGED cntVars
    /\ UNCHANGED scVars
    /\ UNCHANGED gfxVars
    /\ UNCHANGED memVars
    /\ UNCHANGED shaderVars

\* The events that change the view: wheel, drag, the controls, the reset
\* button and the public setters of WindowsApplication.
NextView ==
    \/ OnMouseWheel
    \/ OnMouseMove
    \/ SetPan
    \/ SetPanX
    \/ SetPanY
    \/ SetZoom
    \/ SetFractalType
    \/ SetMaxIterations
    \/ SetColorPalette
    \/ ResetView

SpecView == Init /\ [][NextView]_vars

\* No Parameter Store mutator has been called yet.
NoInputYet == lastCall.name = "none"

\* The render loop with one call of any Parameter Store mutator at any point
\* between two frames.
NextStore ==
    \/ NoInputYet /\ SetFractalType
    \/ NoInputYet /\ SetMaxIterations
    \/ NoInputYet /\ SetColorPalette
    \/ NoInputYet /\ SetZoom
    \/ NoInputYet /\ SetPan
    \/ NoInputYet /\ ResetView
    \/ BeginRenderFrame
    \/ RenderFrameStep
    \/ GpuComplete

SpecStore == Init /\ [][NextStore]_vars

\* The render loop without window messages, with device calls whose result
\* RenderFrame does not look at reporting failures.
NextFaults ==
    \/ ResetFencesFails
    \/ ResetCommandBufferFails
    \/ WmQuit
    \/ BeginRenderFrame
    \/ RenderFrameStep
    \/ GpuComplete
    \/ RunExit
    \/ Cleanup
    \/ DestroyContext

SpecFaults == Init /\ [][NextFaults]_vars

\* VulkanContext::FindMemoryType(typeFilter, properties) is called.
CallFindMemoryType ==
    /\ memoryTypeIndex.status = "pending"
    /\ memoryTypeIndex' = FindMemoryType(typeFilter, properties, memoryTypes)
    /\ UNCHANGED <<typeFilter, properties, memoryTypes>>
    /\ UNCHANGED <<loopOnly, m_ubo, lastCall>>
    /\ UNCHANGED viewVars
    /\ UNCHANGED shaderVars
    /\ UNCHANGED oneShot
    /\ UNCHANGED imageAvailable
    /\ UNCHANGED destroyed
    /\ UNCHANGED appVars
    /\ UNCHANGED acqVars
    /\ UNCHANGED cntVars
    /\ UNCHANGED scVars
    /\ UNCHANGED gfxVars

SpecMem == InitMem /\ [][CallFindMemoryType]_vars

\* The Parameter Store under its mutators and the resize messages, no frames.
NextParams ==
    \/ SetPan
    \/ SetZoom
    \/ SetFractalType
    \/ SetMaxIterations
    \/ SetColorPalette
    \/ ResetView
    \/ WmSize
    \/ WmEnterSizeMove
    \/ WmExitSizeMove

SpecParams == Init /\ [][NextParams]_vars

\* The render loop with the window messages that resize, and teardown; the
\* Parameter Record changes only through the resize path here.
Next ==
    \/ WmSize
    \/ WmEnterSizeMove
    \/ WmExitSizeMove
    \/ WmQuit
    \/ BeginRenderFrame
    \/ WaitForFences
    \/ AcquireNextImage
    \/ UpdateUniformBuffer
    \/ ResetFences
    \/ ResetCommandBuffer
    \/ RecordCommandBuffer
    \/ QueueSubmit
    \/ PresentImage
    \/ AdvanceFrame
    \/ GpuComplete
    \/ RunExit
    \/ Cleanup
    \/ DestroyContext

Spec == Init /\ [][Next]_vars

\* The same program on a device that completes every submitted command buffer
\* and with a RenderFrame that, being straight-line code on the one thread of
\* Run, takes its next step whenever it can.
SpecLive == Spec /\ WF_vars(GpuComplete) /\ WF_vars(RenderFrameStep)

\* Typing of the state.
TypeOK ==
    /\ pc \in {"loop", "wait", "acquire", "upload", "resetFence", "resetCmd", "record",
               "submit", "present", "advance", "failed", "quit", "exited", "cleaned",
               "rendererDestroyed", "contextDestroyed"}
    /\ m_currentFrame \in Nat
    /\ imageIndex \in Images \cup {NoImage}
    /\ m_inFlightFences \in [Slots -> BOOLEAN]
    /\ nFrames \in 0 .. MaxFrames
    /\ {m_graphicsPipeline, m_pipelineLayout, m_descriptorSetLayout, m_renderPass}
            \subseteq HandleOrigins
    /\ m_swapChainImageViews \in {0} \cup DeviceImageCounts
    /\ imageAvailable \in [Slots -> BOOLEAN]
    /\ deviceImages \in DeviceImageCounts
    /\ windowWait.pc \in {"idle", "looping", "proceeded"}
    /\ windowWait.waits \in 0 .. MaxWaitRounds
    /\ m_fractalType \in FractalTypeValues
    /\ m_maxIterations \in IterationValues \cup {100}
    /\ m_colorPalette \in PaletteValues
    /\ m_zoom \in (Nat \ {0}) \X (Nat \ {0})
    /\ m_panX \in Int
    /\ m_panY \in Int
    /\ destroyed \in [ObjectKinds -> 0 .. 2]
    /\ recreateOps \in {<<>>, RecreateSwapChainOps}
    /\ vertShaderFile \in ShaderFileSizes
    /\ fragShaderFile \in ShaderFileSizes
    /\ pipelineBuild.status \in {"pending", "thrown", "built"}
    /\ pipelineBuild.shaderModules \in 0 .. 2
    /\ oneShot.pc \in {"none", "begun", "ended", "submitted", "idle", "done"}
    /\ oneShot.frees \in 0 .. 1

\* ------------------------------------------------------------ properties
StaleResults == {"VK_ERROR_OUT_OF_DATE_KHR", "VK_SUBOPTIMAL_KHR"}
TeardownStates == {"exited", "cleaned", "rendererDestroyed", "contextDestroyed"}
LoopEnded == {"failed", "quit"} \cup TeardownStates

\* C1: when RenderFrame has just reset the command buffer of the acquired image
\* (and is about to re-record it), no earlier submission of that same command
\* buffer is still pending on the device.
C1_NoResetWhilePending ==
    pc = "record" =>
        \A k \in DOMAIN queue : ~(queue[k].cbLive /\ queue[k].cb = imageIndex)

\* C2: at most MAX_FRAMES_IN_FLIGHT submissions are pending; a RenderFrame that
\* finds that many pending is blocked at its fence wait on the fence of the
\* oldest one; the first MAX_FRAMES_IN_FLIGHT frames find their fence signaled.
C2_InFlightBounded ==
    /\ Len(queue) <= MAX_FRAMES_IN_FLIGHT
    /\ (pc = "wait" /\ Len(queue) = MAX_FRAMES_IN_FLIGHT) =>
            /\ ~FenceWaitReturns(m_inFlightFences, m_currentFrame)
            /\ Head(queue).fence = m_currentFrame
    /\ (pc = "wait" /\ nStarted <= MAX_FRAMES_IN_FLIGHT) =>
            m_inFlightFences[m_currentFrame]

\* C2 witness: the third frame is blocked behind two pending submissions.
C2_Witness ==
    /\ pc = "wait"
    /\ nStarted = MAX_FRAMES_IN_FLIGHT + 1
    /\ Len(queue) = MAX_FRAMES_IN_FLIGHT
    /\ ~m_inFlightFences[m_currentFrame]

\* C3: no pending submission names a command buffer that has been freed.
C3_NoPendingOnFreedCommandBuffer ==
    \A k \in DOMAIN queue : queue[k].cbLive

\* C4: one AcquireNextImage call makes at most two acquire attempts and at most
\* one rebuild, is over after the second attempt, and when every attempt reports
\* a stale surface it has rebuilt exactly once and raised the fatal error.
C4_AcquireBounded ==
    /\ acqAttempts <= 2
    /\ acqRebuilds <= 1
    /\ acqAttempts = 2 => pc # "acquire"
    /\ (Len(acqResults) = 2 /\ \A k \in DOMAIN acqResults : acqResults[k] \in StaleResults) =>
            /\ acqRebuilds = 1
            /\ frame.acqIdx = NoImage
            /\ pc \in LoopEnded \ {"quit"}

\* C4 witness: two stale results in a row ended the call with the fatal error.
C4_Witness ==
    /\ pc = "failed"
    /\ Len(acqResults) = 2
    /\ \A k \in DOMAIN acqResults : acqResults[k] \in StaleResults
    /\ acqRebuilds = 1

\* C5: from the device-idle wait that follows the render loop onwards, through
\* both Cleanup calls and the context destructor, nothing is pending on the
\* device: no destruction at teardown hits a resource a submission still uses.
C5_TeardownIdle ==
    pc \in TeardownStates => queue = <<>>

\* C5 witness: the renderer was cleaned up after a frame that had submitted
\* work ended in a fatal present error.
C5_Witness ==
    /\ pc = "cleaned"
    /\ nStarted > nFrames
    /\ Len(frame.presents) = 1
    /\ m_commandBuffers = <<>>

\* C6: the framebuffer RenderFrame records for the acquired image is attached to
\* image view i of the current swap chain, a view that still exists.
C6_FramebufferViewCurrent ==
    pc = "submit" =>
        LET fb == m_swapChainFramebuffers[m_commandBuffers[imageIndex].framebuffer] IN
        fb.view = imageIndex /\ fb.viewLive

\* C7: the frame slot stays in [0, N), the k-th successful frame used slot
\* (k-1) mod N for its fence and its semaphores, and a frame that has not
\* returned normally has left the slot index where it was.
C7_SlotPattern ==
    /\ m_currentFrame \in Slots
    /\ Len(slotLog) = nFrames
    /\ \A k \in DOMAIN slotLog : slotLog[k] = (k - 1) % MAX_FRAMES_IN_FLIGHT
    /\ m_currentFrame = nFrames % MAX_FRAMES_IN_FLIGHT
    /\ nStarted > nFrames => frame.slot = m_currentFrame
    /\ pc = "advance" =>
            /\ frame.fenceWaited = frame.slot
            /\ frame.acqSem = frame.slot
            /\ frame.fenceReset = frame.slot
            /\ frame.submit.fence = frame.slot
            /\ frame.submit.wait = frame.slot
            /\ frame.submit.signal = frame.slot

\* C7 witness: five frames in a row used the slots 0,1,0,1,0.
C7_Witness ==
    /\ Len(slotLog) >= 5
    /\ \A k \in 1 .. 5 : slotLog[k] = <<0, 1, 0, 1, 0>>[k]

\* C8: a frame that is about to return has made exactly one present call, as
\* its last device call and right after its submit, for the image its acquire
\* returned, waiting on the render-finished semaphore of the slot whose
\* image-available semaphore the acquire and the submit used; the number of
\* present calls is the number of successful frames (plus those of a frame
\* that has not returned).
C8_OnePresentPerFrame ==
    /\ pc = "advance" =>
            /\ Len(frame.presents) = 1
            /\ frame.presents[1].image = frame.acqIdx
            /\ frame.presents[1].wait = frame.slot
            /\ frame.submit.signal = frame.presents[1].wait
            /\ frame.submit.wait = frame.acqSem
            /\ frame.acqSem = frame.slot
            /\ frame.submit.cb = frame.acqIdx
            /\ Len(frame.ops) >= 2
            /\ frame.ops[Len(frame.ops) - 1] = "submit"
            /\ frame.ops[Len(frame.ops)] = "present"
    /\ nPresents = nFrames + (IF nStarted > nFrames THEN Len(frame.presents) ELSE 0)

\* C8 witness: five frames, five presents, the last one of an image whose index
\* differs from the frame slot.
C8_Witness ==
    /\ pc = "loop"
    /\ nFrames = 5
    /\ nPresents = 5
    /\ Len(frame.presents) = 1
    /\ frame.presents[1].image # frame.slot

\* C9: from the upload step to the end of the frame the parameter buffer of the
\* acquired image holds the whole record as it stood when RenderFrame was
\* called, and the command buffer the frame submits binds the descriptor set
\* that points at that buffer.
C9_UploadIsRecordAtCall ==
    /\ pc \in {"resetFence", "resetCmd", "record", "submit", "present", "advance"} =>
            /\ frame.uploaded = imageIndex
            /\ uniformBuffers[imageIndex] = frame.ubo
    /\ pc \in {"present", "advance"} =>
            /\ frame.submit.cb = imageIndex
            /\ m_commandBuffers[imageIndex].recorded
            /\ m_descriptorSets[m_commandBuffers[imageIndex].descriptorSet] = imageIndex

\* C9 witness: setPan(0.1, -0.2) and setZoom(2.0), then a frame that acquired an
\* image other than its slot uploaded center = (0.1, -0.2), scale = 1/2.
C9_Witness ==
    /\ pc = "present"
    /\ imageIndex # m_currentFrame
    /\ uniformBuffers[imageIndex].valid
    /\ uniformBuffers[imageIndex].centerX = 1
    /\ uniformBuffers[imageIndex].centerY = 0 - 2
    /\ uniformBuffers[imageIndex].scale = <<1, 2>>

\* C10: when RenderFrame has just copied the record into the parameter buffer of
\* the acquired image, no pending submission reads that buffer.
C10_UploadTargetNotPending ==
    pc = "resetFence" =>
        \A k \in DOMAIN queue : queue[k].buffer # imageIndex

\* C15: when the first result of vkAcquireNextImageKHR in a call of
\* AcquireNextImage is an error that is neither success nor a stale-surface
\* result, the call has made one attempt, has rebuilt nothing, and the render
\* loop has ended with the fatal error, whether or not a resize was pending.
C15_ErrorFailsImmediately ==
    (Len(acqResults) >= 1 /\ acqResults[1] \notin (StaleResults \cup {"VK_SUCCESS"})) =>
        /\ acqAttempts = 1
        /\ acqRebuilds = 0
        /\ pc \in LoopEnded

CtxRebuildStep ==
    \/ (m_resizing /\ ~m_resizing')
    \/ acqRebuilds' = acqRebuilds + 1
    \/ frame'.presentRebuilds = frame.presentRebuilds + 1

C14_AspectRatioCurrent ==
    pc \in {"resetFence", "resetCmd", "record", "submit"} =>
        RatioEq(uniformBuffers[imageIndex].aspectRatio, AspectRatio(m_swapChainExtent))

\* C20: until FractalRenderer::Cleanup runs, the pipeline object, the pipeline
\* layout, the descriptor set layout and the render pass are the objects the
\* constructor created: no resize rebuild has destroyed or re-created them.
C20_ResizeKeepsPipelineObjects ==
    pc \notin {"cleaned", "rendererDestroyed", "contextDestroyed"} =>
        /\ m_graphicsPipeline = "constructor"
        /\ m_pipelineLayout = "constructor"
        /\ m_descriptorSetLayout = "constructor"
        /\ m_renderPass = "constructor"

\* C16: the maxIterations field of the Parameter Record lies in [1, 100000]
\* whatever arguments the mutator was called with.
C16_MaxIterationsBounded ==
    m_ubo.maxIterations \in 1 .. 100000

\* C17: after ResetView the record has center = (0, 0), scale = 1, the default
\* Julia constant and Multibrot power 3; fractalType, maxIterations,
\* colorPalette and aspectRatio are what they were before the call; and a
\* second ResetView would change nothing.
C17_ResetViewRestoresDefaults ==
    lastCall.name = "ResetView" =>
        /\ m_ubo.centerX = 0
        /\ m_ubo.centerY = 0
        /\ m_ubo.scale = <<1, 1>>
        /\ m_ubo.juliaConstant = JuliaDefault
        /\ m_ubo.multibrotPower = 3
        /\ m_ubo.fractalType = lastCall.before.fractalType
        /\ m_ubo.maxIterations = lastCall.before.maxIterations
        /\ m_ubo.colorPalette = lastCall.before.colorPalette
        /\ m_ubo.aspectRatio = lastCall.before.aspectRatio
        /\ ResetViewRecord(m_ubo) = m_ubo

\* C17 witness: ResetView was called on a panned, zoomed record with another
\* fractal type, palette, iteration count and aspect ratio than at start-up.
C17_Witness ==
    /\ lastCall.name = "ResetView"
    /\ lastCall.before.centerX = 1
    /\ lastCall.before.scale = <<1, 2>>
    /\ lastCall.before.fractalType = 4
    /\ lastCall.before.maxIterations = 1000
    /\ lastCall.before.colorPalette = 3
    /\ lastCall.before.aspectRatio # DefaultUBO.aspectRatio
    /\ m_ubo.aspectRatio = lastCall.before.aspectRatio
    /\ m_ubo.centerX = 0
    /\ m_ubo.scale = <<1, 1>>

\* C18: after SetZoom(z) the scale of the record is exactly 1 / z (scale * z = 1),
\* whatever the scale was before the call.
C18_SetZoomIsReciprocal ==
    lastCall.name = "SetZoom" =>
        /\ lastCall.zoom > 0
        /\ m_ubo.scale[1] * lastCall.zoom = m_ubo.scale[2]

\* C18 witness: SetZoom(1) on a record whose scale was 1/2 left scale = 1.
C18_Witness ==
    /\ lastCall.name = "SetZoom"
    /\ lastCall.zoom = 1
    /\ lastCall.scaleBefore = <<1, 2>>
    /\ m_ubo.scale = <<1, 1>>

\* Bit b of the unsigned integer x.
BitSet(x, b) == (x \div (2 ^ b)) % 2 = 1

\* The indices of the memory types that satisfy both the mask and the flags.
SuitableMemoryTypes ==
    {i \in 0 .. (Len(memoryTypes) - 1) :
        /\ BitSet(typeFilter, i)
        /\ \A b \in 0 .. (MemFlagBits - 1) :
                BitSet(properties, b) => BitSet(memoryTypes[i + 1], b)}

\* C19: FindMemoryType returns the lowest index whose mask bit is set and whose
\* properties include all the required ones, and raises the fatal error
\* exactly when there is no such index.
C19_FindMemoryTypeFirstMatch ==
    memoryTypeIndex.status # "pending" =>
        IF SuitableMemoryTypes = {}
        THEN memoryTypeIndex.status = "thrown"
        ELSE /\ memoryTypeIndex.status = "returned"
             /\ memoryTypeIndex.index \in SuitableMemoryTypes
             /\ \A j \in SuitableMemoryTypes : memoryTypeIndex.index <= j

\* C19 witness: with every mask bit set and both flags required, types 0 and 1
\* each offer one of the flags only and type 2 offers both: index 2 is returned.
C19_Witness ==
    /\ memoryTypeIndex = [status |-> "returned", index |-> 2]
    /\ typeFilter = 7
    /\ properties = 3
    /\ memoryTypes = <<1, 2, 3>>

\* C11: once a device call of the current RenderFrame has reported a failure
\* other than a stale swap chain, RenderFrame has raised the fatal error and the
\* render loop has stopped.
C11_DeviceFailureIsFatal ==
    frame.fault # "none" => pc \in {"failed"} \cup TeardownStates

\* C24: a RenderFrame that is about to return has made its calls in the order
\* wait on the fence, acquire, upload, reset and record the command buffer,
\* reset the fence, submit, present: the fence reset follows the recording and
\* comes immediately before the submit.
C24_StepOrder ==
    pc = "advance" =>
        frame.ops = <<"wait", "acquire", "upload", "resetCmd", "record",
                      "resetFence", "submit", "present">>

\* C25: when the first acquire attempt reported a stale surface and the
\* attempt after the rebuild succeeded, AcquireNextImage made one rebuild and
\* returned the index of the second attempt without raising; a frame that then
\* runs to its end uploaded, recorded, submitted and presented that index.
C25_TransientStaleNotAnError ==
    (/\ Len(acqResults) = 2
     /\ acqResults[1] \in StaleResults
     /\ acqResults[2] = "VK_SUCCESS") =>
        /\ acqRebuilds = 1
        /\ pc # "acquire"
        /\ frame.acqIdx = frame.acqLast
        /\ imageIndex = frame.acqLast
        /\ frame.fault # "acquire"
        /\ pc = "failed" => frame.fault \in {"record", "submit", "present"}
        /\ pc = "advance" =>
                /\ frame.uploaded = frame.acqLast
                /\ frame.recorded = frame.acqLast
                /\ frame.submit.cb = frame.acqLast
                /\ Len(frame.presents) = 1
                /\ frame.presents[1].image = frame.acqLast

\* C25 witness: the first attempt was suboptimal and delivered one image, the
\* attempt after the rebuild succeeded with another, and the frame presented
\* the second one.
C25_Witness ==
    /\ pc = "advance"
    /\ acqResults = <<"VK_SUBOPTIMAL_KHR", "VK_SUCCESS">>
    /\ frame.acqFirst # frame.acqLast
    /\ frame.acqFirst \in Images
    /\ Len(frame.presents) = 1
    /\ frame.presents[1].image = frame.acqLast
    /\ frame.fault = "none"

\* ------------------------------------------------------------ C29
\* C29: every signal an acquire places on the image-available semaphore of a
\* frame slot is consumed by a submit before that semaphore is handed to
\* acquire again: whenever vkAcquireNextImageKHR is about to be called, the
\* semaphore of the current slot carries no pending signal, the retry after an
\* internal rebuild included.
C29_AcquireSemaphoreUnsignalled ==
    pc = "acquire" => ~imageAvailable[AcquireSemaphore(m_currentFrame)]

\* ------------------------------------------------------------ C28
\* C28: across shutdown (Cleanup from the application's destructor, then again
\* from the renderer's destructor) every device object the renderer owns is
\* destroyed at most once.
C28_DestroyedAtMostOnce ==
    \A k \in ObjectKinds : destroyed[k] <= 1

\* ------------------------------------------------------------ C26
\* C26: VulkanContext::RecreateSwapChain waits for the device to be idle,
\* destroys the image views and the swap chain, blocks until the window
\* reports non-zero client dimensions, and then creates the new swap chain and
\* views, in this order.
C26_RecreateOrder ==
    recreateOps # <<>> =>
        recreateOps = <<"vkDeviceWaitIdle", "CleanupSwapChain", "waitForWindow",
                        "CreateSwapChain", "CreateImageViews">>

\* ------------------------------------------------------------ C27
\* The positions of a RenderFrame call that is under way.
InRenderFrame ==
    pc \in {"wait", "acquire", "upload", "resetFence", "resetCmd", "record", "submit",
            "present", "advance"}

\* C27: a RenderFrame running in frame slot f that acquires image i leaves the
\* parameter buffer and the command buffer of every other image index
\* unchanged, resets no fence of another frame slot and leaves the
\* image-available semaphore of every other frame slot as it was.
C27_FrameTouchesOwnResources ==
    [][InRenderFrame =>
        /\ \A j \in Images \ {imageIndex'} :
              /\ uniformBuffers'[j] = uniformBuffers[j]
              /\ m_commandBuffers'[j] = m_commandBuffers[j]
        /\ \A g \in Slots \ {m_currentFrame} :
              /\ m_inFlightFences[g] => m_inFlightFences'[g]
              /\ imageAvailable'[g] = imageAvailable[g]]_vars

\* A frame in slot f that used an image i # f has uploaded, recorded, submitted
\* and presented, and another image still holds the recording of an earlier frame.
C27_Witness ==
    /\ pc = "advance"
    /\ imageIndex # m_currentFrame
    /\ frame.uploaded = imageIndex
    /\ frame.recorded = imageIndex
    /\ \E j \in Images \ {imageIndex} : m_commandBuffers[j].recorded

\* ------------------------------------------------------------ C22
\* C22: a pipeline build raises whenever the vertex or the fragment shader
\* binary is absent or has zero length, and has then created no shader module,
\* no pipeline layout and no pipeline.
C22_MissingShaderIsFatal ==
    (/\ pipelineBuild.status # "pending"
     /\ \/ vertShaderFile \in {Absent, 0}
        \/ fragShaderFile \in {Absent, 0})
    => /\ pipelineBuild.status = "thrown"
       /\ pipelineBuild.shaderModules = 0
       /\ ~pipelineBuild.pipelineLayout
       /\ ~pipelineBuild.pipeline

\* A build with a vertex shader in place and an empty fragment shader has raised.
C22_Witness ==
    /\ vertShaderFile > 0
    /\ fragShaderFile = 0
    /\ pipelineBuild.status = "thrown"

\* ------------------------------------------------------------ C23
\* The calls of one Begin/EndSingleTimeCommands pair in program order.
OneShotOrder == <<"allocate", "begin", "end", "submit", "waitIdle", "free">>

\* C23: for a one-shot command buffer the operations occur in the order
\* end-recording, submit, wait-for-queue-idle, free, and the buffer is freed
\* exactly once on every path whatever the device calls returned: the calls
\* made so far are always a prefix of that order, the buffer is never freed
\* twice, and once EndSingleTimeCommands is over (returned or raised) all four
\* calls have been made and the buffer has been freed once.
C23_OneShotFreedOnce ==
    /\ Len(oneShot.ops) <= Len(OneShotOrder)
    /\ oneShot.ops = SubSeq(OneShotOrder, 1, Len(oneShot.ops))
    /\ oneShot.frees <= 1
    /\ oneShot.pc \in {"done", "thrown"} =>
          /\ oneShot.frees = 1
          /\ Len(oneShot.ops) = Len(OneShotOrder)

\* EndSingleTimeCommands has returned although the submit and the queue wait
\* both reported a lost device.
C23_Witness ==
    /\ oneShot.pc = "done"
    /\ oneShot.results[4] = "VK_ERROR_DEVICE_LOST"
    /\ oneShot.results[5] = "VK_ERROR_DEVICE_LOST"
    /\ oneShot.frees = 1

OwnFields(name) ==
    CASE name = "SetFractalType" -> {"fractalType"}
      [] name = "SetMaxIterations" -> {"maxIterations"}
      [] name = "SetColorPalette" -> {"colorPalette"}
      [] name = "SetZoom" -> {"scale"}
      [] name = "SetPan" -> {"centerX", "centerY"}
      [] name = "ResetView" ->
            {"centerX", "centerY", "scale", "juliaConstant", "multibrotPower"}

\* The step is a call of a Parameter Store mutator.
MutatorStep ==
    /\ lastCall' # lastCall
    /\ lastCall'.name \in {"SetFractalType", "SetMaxIterations", "SetColorPalette",
                           "SetZoom", "SetPan", "ResetView"}

\* C21: each Parameter Store mutator changes only its own fields of the
\* in-memory record and leaves every GPU-visible parameter buffer, every
\* command buffer, the fences, the semaphores, the submission queue and the
\* frame-slot index unchanged; a GPU-visible parameter buffer changes only in
\* the upload step of RenderFrame.
C21_MutatorsTouchRecordOnly ==
    [][/\ MutatorStep =>
            /\ \A fld \in (DOMAIN m_ubo) \ OwnFields(lastCall'.name) :
                    m_ubo'[fld] = m_ubo[fld]
            /\ UNCHANGED <<uniformBuffers, m_commandBuffers, m_inFlightFences,
                           imageAvailable, m_currentFrame, queue>>
       /\ uniformBuffers' # uniformBuffers => pc = "upload"]_vars

\* A palette change has been made between two frames while a parameter buffer
\* on the device still holds the previous palette.
C21_Witness ==
    /\ pc = "loop"
    /\ lastCall.name = "SetColorPalette"
    /\ m_ubo.colorPalette = 3
    /\ \E i \in Images :
          /\ uniformBuffers[i] # Uninit
          /\ uniformBuffers[i].colorPalette = 0

\* ------------------------------------------------------------ C32
\* AcquireNextImage has returned to RenderFrame, which has not ended yet.
AcquireReturned ==
    pc \in {"upload", "resetFence", "resetCmd", "record", "submit", "present", "advance"}

C33_InteractiveResizeDefersRebuild ==
    [][/\ (m_resizing /\ m_resizing' /\ pc = "loop" /\ pc' = "loop") =>
            UNCHANGED <<swapChainLive, m_swapChainFramebuffers, m_commandBuffers,
                        m_graphicsPipeline, m_pipelineLayout, m_swapChainImages,
                        m_swapChainImageViews, m_swapChainExtent, recreateOps,
                        m_framebufferResized>>
       /\ (m_resizing /\ ~m_resizing') =>
            /\ recreateOps' = RecreateSwapChainOps
            /\ swapChainLive'
            /\ m_swapChainImages' = CreateSwapChain
            /\ ~m_framebufferResized'
            /\ UNCHANGED <<m_width, m_height, m_commandBuffers, m_graphicsPipeline,
                           m_pipelineLayout>>]_vars

\* An interactive resize to another size is over: the size was recorded
\* during it without a renderer rebuild, and the one swap chain rebuild of
\* WM_EXITSIZEMOVE has been made, before any frame.
C33_Witness ==
    /\ ~m_resizing
    /\ nStarted = 0
    /\ <<m_width, m_height>> # InitialWindowSize
    /\ m_graphicsPipeline = "constructor"
    /\ recreateOps = RecreateSwapChainOps

\* ------------------------------------------------------------ C31
\* The number of elements of a per-image array.
ArraySize(a) == Cardinality(DOMAIN a)

\* C31: between two frames the numbers of framebuffers, command buffers,
\* parameter buffers and descriptor sets all equal the number of images of the
\* current swap chain.
C31_PerImageArraysMatchSwapChain ==
    pc = "loop" =>
        /\ ArraySize(m_swapChainFramebuffers) = m_swapChainImages
        /\ ArraySize(m_commandBuffers) = m_swapChainImages
        /\ ArraySize(uniformBuffers) = m_swapChainImages
        /\ ArraySize(m_descriptorSets) = m_swapChainImages

\* ------------------------------------------------------------ C34
\* C34: RecreateSwapChain goes on to destroy and create the swap chain only
\* with a render area, client width by client height minus the control strip,
\* whose two dimensions are strictly positive.
C34_ProceedsWithPositiveArea ==
    windowWait.pc = "proceeded" =>
        /\ windowWait.width > 0
        /\ windowWait.height > 0

\* ------------------------------------------------------------ C35
\* C35: the view state cached by the windowing layer agrees with the
\* renderer's Parameter Record: scale = 1 / m_zoom, center = (m_panX, m_panY),
\* fractalType = m_fractalType, maxIterations = m_maxIterations and
\* colorPalette = m_colorPalette.
C35_CacheAgreesWithRecord ==
    /\ m_ubo.scale[1] * m_zoom[1] = m_ubo.scale[2] * m_zoom[2]
    /\ m_ubo.centerX = m_panX
    /\ m_ubo.centerY = m_panY
    /\ m_ubo.fractalType = m_fractalType
    /\ m_ubo.maxIterations = m_maxIterations
    /\ m_ubo.colorPalette = m_colorPalette

\* The view was zoomed and panned away from its defaults and then reset with
\* the button, after the fractal type had been changed.
C35_Witness ==
    /\ lastCall.name = "ResetView"
    /\ lastCall.before.scale # <<1, 1>>
    /\ lastCall.before.centerX # 0
    /\ m_fractalType # 0
    /\ m_zoom = <<1, 1>>

====
